---- MODULE Spec2Model ----
(***************************************************************************)
(* Mass properties of a finite-element model                               *)
(* (pyNastran/bdf/mesh_utils/mass_properties.py).                          *)
(*                                                                         *)
(* Floating-point values are modelled as exact rationals <<n, d>> in       *)
(* lowest terms with d > 0, so that a division (cg / mass) is a division   *)
(* and equality of results is plain equality.                              *)
(***************************************************************************)
EXTENDS Integers, Sequences, FiniteSets, TLC

VARIABLES
    pc,               \* position in the running call
    entry,            \* "new": _mass_properties_new, "legacy": _mass_properties,
                      \* "transform": _increment_inertia then transform_inertia
    entities,         \* the selected elements then point masses, in processing order
    reference_point,  \* the reference_point argument of the call
    sym_axis,         \* the sym_axis argument
    scale,            \* the scale argument (<<>> is None)
    nsm_id,           \* the nsm_id argument (<<>> is None)
    aero,             \* model.aero  (<<>> is None)
    aeros,            \* model.aeros (<<>> is None)
    wtmass,           \* model.params['WTMASS'].values[0] (<<>>: no such PARAM)
    xyz_ref2,         \* transform_inertia's new reference location
    elements,         \* model.elements: element id -> element
    masses,           \* model.masses: mass id -> point mass
    type_to_id_map,   \* model._type_to_id_map, as the list of its (type, ids) items
    element_ids,      \* the element_ids argument (<<>> is None)
    mass_ids,         \* the mass_ids argument (<<>> is None)
    nsms,             \* model.get_reduced_nsms(nsm_id): the NSM cards of nsm_id
    ref,              \* the local reference_point the accumulation uses
    idx,              \* index into entities of the next one to process
    mass,             \* running mass
    cg,               \* running mass-weighted centroid sum, later the cg
    I,                \* running inertia [Ixx, Iyy, Izz, Ixy, Ixz, Iyz]
    I_new,            \* transform_inertia's result
    err,              \* the exception that ended the call ("" when none)
    eids2,            \* _get_mass_new: the ids of the family still to process
    etypes_skipped,   \* the types already reported as having no mass
    skip_log,         \* the 'doesnt have mass' reports about elements, in order
    area_eids_pids,   \* family key -> (eid, pid) of its area elements
    areas,            \* family key -> their areas
    nsm_centroids_area,    \* family key -> their NSM centroids
    length_eids_pids, \* family key -> (eid, pid) of its line elements
    lengths,          \* family key -> their lengths
    nsm_centroids_length,  \* family key -> their NSM centroids
    eidsi             \* _apply_nsm's local eidsi (<<>> while unbound)

vars == <<pc, entry, entities, reference_point, sym_axis, scale, nsm_id, aero,
          aeros, wtmass, xyz_ref2, elements, masses, type_to_id_map,
          element_ids, mass_ids, nsms, ref, idx, mass, cg, I, I_new, err,
          eids2, etypes_skipped, skip_log, area_eids_pids, areas,
          nsm_centroids_area, length_eids_pids, lengths, nsm_centroids_length,
          eidsi>>

args == <<entry, entities, reference_point, sym_axis, scale, nsm_id, aero,
          aeros, wtmass, xyz_ref2, elements, masses, type_to_id_map,
          element_ids, mass_ids, nsms>>

\* the contribution lists that _get_mass_new fills for _apply_nsm
nsm_lists == <<area_eids_pids, areas, nsm_centroids_area,
               length_eids_pids, lengths, nsm_centroids_length>>

\* the locals of _mass_properties_new that only a model with typed elements
\* and NSM cards exercises
model_locals == <<eids2, etypes_skipped, skip_log, nsm_lists, eidsi>>

(***************************************************************************)
(* Bounds of the model.                                                    *)
(***************************************************************************)
MaxEntities == 2
MaxMass == 2
MaxCoord == 1
MaxSymLen == 3
MaxId == 3
MaxEids == 2

(***************************************************************************)
(* Exact arithmetic standing for the floats.                               *)
(***************************************************************************)
Abs(n) == IF n < 0 THEN -n ELSE n

RECURSIVE Gcd(_, _)
Gcd(a, b) == IF b = 0 THEN a ELSE Gcd(b, a % b)

QNorm(n, d) ==
    LET g == Gcd(Abs(n), Abs(d))
        s == IF d < 0 THEN -1 ELSE 1
    IN  <<(s * n) \div g, (s * d) \div g>>

Q(n) == <<n, 1>>
QAdd(a, b) == QNorm(a[1] * b[2] + b[1] * a[2], a[2] * b[2])
QSub(a, b) == QNorm(a[1] * b[2] - b[1] * a[2], a[2] * b[2])
QMul(a, b) == QNorm(a[1] * b[1], a[2] * b[2])
QDiv(a, b) == QNorm(a[1] * b[2], a[2] * b[1])
QZero == Q(0)
QIsZero(a) == a[1] = 0

\* numpy arrays: elementwise arithmetic
VQ(v) == [i \in DOMAIN v |-> Q(v[i])]
VAdd(u, v) == [i \in DOMAIN u |-> QAdd(u[i], v[i])]
VSub(u, v) == [i \in DOMAIN u |-> QSub(u[i], v[i])]
VScale(q, v) == [i \in DOMAIN v |-> QMul(q, v[i])]
VDiv(v, q) == [i \in DOMAIN v |-> QDiv(v[i], q)]
Zero3 == <<QZero, QZero, QZero>>
Zero6 == <<QZero, QZero, QZero, QZero, QZero, QZero>>

(***************************************************************************)
(* _increment_inertia(centroid, reference_point, m, mass, cg, I):          *)
(* I and cg are updated in place, the new mass is the returned value.      *)
(***************************************************************************)
IncrementInertiaLostMass(centroid, reference_point_, m, mass_, cg_, I_) ==
    LET d == VSub(centroid, reference_point_)
        x == d[1]  y == d[2]  z == d[3]
        x2 == QMul(x, x)  y2 == QMul(y, y)  z2 == QMul(z, z)
    IN  [I |-> <<QAdd(I_[1], QMul(m, QAdd(y2, z2))),
                 QAdd(I_[2], QMul(m, QAdd(x2, z2))),
                 QAdd(I_[3], QMul(m, QAdd(x2, y2))),
                 QAdd(I_[4], QMul(QMul(m, x), y)),
                 QAdd(I_[5], QMul(QMul(m, x), z)),
                 QAdd(I_[6], QMul(QMul(m, y), z))>>,
         mass |-> mass_,
         cg |-> VAdd(cg_, VScale(m, centroid))]

IncrementInertia(centroid, reference_point_, m, mass_, cg_, I_) ==
    LET d == VSub(centroid, reference_point_)
        x == d[1]  y == d[2]  z == d[3]
        x2 == QMul(x, x)  y2 == QMul(y, y)  z2 == QMul(z, z)
    IN  [I |-> <<QAdd(I_[1], QMul(m, QAdd(y2, z2))),
                 QAdd(I_[2], QMul(m, QAdd(x2, z2))),
                 QAdd(I_[3], QMul(m, QAdd(x2, y2))),
                 QAdd(I_[4], QMul(QMul(m, x), y)),
                 QAdd(I_[5], QMul(QMul(m, x), z)),
                 QAdd(I_[6], QMul(QMul(m, y), z))>>,
         mass |-> QAdd(mass_, m),
         cg |-> VAdd(cg_, VScale(m, centroid))]

(***************************************************************************)
(* transform_inertia(mass, xyz_cg, xyz_ref, xyz_ref2, I_ref)               *)
(***************************************************************************)
transform_inertia(mass_, xyz_cg, xyz_ref, xyz_ref2_, I_ref) ==
    LET dx1 == QSub(xyz_cg[1], xyz_ref[1])
        dy1 == QSub(xyz_cg[2], xyz_ref[2])
        dz1 == QSub(xyz_cg[3], xyz_ref[3])
        dx2 == QSub(xyz_ref2_[1], xyz_cg[1])
        dy2 == QSub(xyz_ref2_[2], xyz_cg[2])
        dz2 == QSub(xyz_ref2_[3], xyz_cg[3])
    IN  <<QSub(I_ref[1], QMul(mass_, QSub(QMul(dx1, dx1), QMul(dx2, dx2)))),
          QSub(I_ref[2], QMul(mass_, QSub(QMul(dy1, dy1), QMul(dy2, dy2)))),
          QSub(I_ref[3], QMul(mass_, QSub(QMul(dz1, dz1), QMul(dz2, dz2)))),
          QSub(I_ref[4], QMul(mass_, QSub(QMul(dx1, dy1), QMul(dx2, dy2)))),
          QSub(I_ref[5], QMul(mass_, QSub(QMul(dx1, dz1), QMul(dx2, dz2)))),
          QSub(I_ref[6], QMul(mass_, QSub(QMul(dy1, dz1), QMul(dy2, dz2))))>>

(***************************************************************************)
(* _apply_mass_symmetry(model, sym_axis, scale, mass, cg, inertia)         *)
(*                                                                         *)
(* The sym_axis argument is [kind, v]: kind "str" (v holds the one         *)
(* string), "list" (v is the list or tuple) or "none" (anything else,      *)
(* v is empty).  An AERO/AEROS card is a record of its four flags.         *)
(***************************************************************************)
\* str.lower() over the strings the model feeds it
Lower(s) ==
    CASE s = "XZ" -> "xz"
      [] s = "XY" -> "xy"
      [] s = "NO" -> "no"
      [] OTHER -> s

\* lines 1677-1681 / 1683-1687: the planes one AERO or AEROS card appends
CardPlanes(card) ==
    IF card = <<>> THEN <<>>
    ELSE (IF card[1].is_symmetric_xy \/ card[1].is_anti_symmetric_xy
          THEN <<"xy">> ELSE <<>>)
         \o
         (IF card[1].is_symmetric_xz \/ card[1].is_anti_symmetric_xz
          THEN <<"xz">> ELSE <<>>)

\* lines 1662-1687: sym_axis as a list
SymAxisList(sym_axis_, aero_, aeros_) ==
    IF sym_axis_.kind \in {"str", "list"} THEN sym_axis_.v
    ELSE CardPlanes(aero_) \o CardPlanes(aeros_)

\* line 1689: list(set(sym_axis)), kept as the set
SymAxisSet(sym_axis_, aero_, aeros_) ==
    LET l == SymAxisList(sym_axis_, aero_, aeros_)
    IN  {l[i] : i \in DOMAIN l}

\* lines 1690-1698 without the test of 'no' used with other entries
SymAxisRejectedNoAlone(sym_set) ==
    \E s \in sym_set : Lower(s) \notin {"no", "xy", "yz", "xz"}

\* lines 1690-1698: TRUE when the validation raises RuntimeError
SymAxisRejected(sym_set) ==
    LET is_no == \E s \in sym_set : Lower(s) = "no"
    IN  \/ is_no /\ Cardinality(sym_set) > 1
        \/ \E s \in sym_set : Lower(s) \notin {"no", "xy", "yz", "xz"}

\* a plane's block that doubles and zeroes the inertia but leaves the cg alone
PlaneBlockKeepsCg(active, zeroed, f, r) ==
    IF ~active THEN r
    ELSE [mass |-> QMul(r.mass, Q(2)),
          cg |-> r.cg,
          inertia |-> [i \in 1..6 |-> QMul(r.inertia[i], Q(f[i]))]]

\* lines 1704-1713, 1715-1724, 1726-1735: one plane's block; zeroed is the
\* index of the cg component set to 0.0, f the factors applied to inertia
PlaneBlock(active, zeroed, f, r) ==
    IF ~active THEN r
    ELSE [mass |-> QMul(r.mass, Q(2)),
          cg |-> [r.cg EXCEPT ![zeroed] = QZero],
          inertia |-> [i \in 1..6 |-> QMul(r.inertia[i], Q(f[i]))]]

\* lines 1700-1735 with the three blocks chained by elif: only the first
\* active plane is applied
SymmetryBlocksElif(sym_set, mass_, cg_, inertia_) ==
    LET r0 == [mass |-> mass_, cg |-> cg_, inertia |-> inertia_]
    IN  IF "xz" \in sym_set THEN PlaneBlock(TRUE, 2, <<2, 2, 2, 0, 2, 0>>, r0)
        ELSE IF "xy" \in sym_set THEN PlaneBlock(TRUE, 3, <<2, 2, 2, 2, 0, 0>>, r0)
        ELSE IF "yz" \in sym_set THEN PlaneBlock(TRUE, 1, <<2, 2, 2, 0, 0, 2>>, r0)
        ELSE r0

\* lines 1700-1735
SymmetryBlocks(sym_set, mass_, cg_, inertia_) ==
    LET r0 == [mass |-> mass_, cg |-> cg_, inertia |-> inertia_]
        r1 == PlaneBlock("xz" \in sym_set, 2, <<2, 2, 2, 0, 2, 0>>, r0)
        r2 == PlaneBlock("xy" \in sym_set, 3, <<2, 2, 2, 2, 0, 0>>, r1)
        r3 == PlaneBlock("yz" \in sym_set, 1, <<2, 2, 2, 0, 0, 2>>, r2)
    IN  IF sym_set = {} THEN r0 ELSE r3

\* lines 1737-1744 with WTMASS taking precedence over the scale argument
ScaleUsedWtmassFirst(scale_, wtmass_) ==
    IF wtmass_ # <<>> THEN wtmass_[1]
    ELSE IF scale_ = <<>> THEN Q(1)
    ELSE scale_[1]

\* lines 1737-1744: the scale factor used
ScaleUsed(scale_, wtmass_) ==
    IF scale_ = <<>> /\ wtmass_ # <<>> THEN wtmass_[1]
    ELSE IF scale_ = <<>> THEN Q(1)
    ELSE scale_[1]

\* the whole function: raised, or the returned (mass, cg, inertia)
ApplyMassSymmetry(sym_axis_, scale_, aero_, aeros_, wtmass_, mass_, cg_, inertia_) ==
    LET sym_set == SymAxisSet(sym_axis_, aero_, aeros_)
        r == SymmetryBlocks(sym_set, mass_, cg_, inertia_)
        s == ScaleUsed(scale_, wtmass_)
    IN  IF SymAxisRejected(sym_set)
        THEN [raised |-> TRUE, mass |-> mass_, cg |-> cg_, inertia |-> inertia_]
        ELSE [raised |-> FALSE,
              mass |-> QMul(r.mass, s),
              cg |-> r.cg,
              inertia |-> VScale(s, r.inertia)]

(***************************************************************************)
(* Inputs.  An entity is one selected element or point mass, reduced to    *)
(* what the accumulation reads of it: its mass m (elem.Mass(), equal to    *)
(* the family formula's value), its centroid c, which of its methods       *)
(* raises (fails: "none", "Centroid" or "Mass") and its property type.     *)
(***************************************************************************)
Origin == <<0, 0, 0>>
Centroids == {<<1, 2, 3>>, <<-1, 1, 0>>}
RefPoints == {Origin, <<1, -1, 2>>}

GoodEntity(m, c) == [m |-> Q(m), c |-> VQ(c), fails |-> "none", ptype |-> "PSHELL"]
BadEntity(f, t) == [m |-> Q(1), c |-> VQ(<<1, 2, 3>>), fails |-> f, ptype |-> t]

Entities ==
    {GoodEntity(m, c) : m \in 0..MaxMass, c \in Centroids}
    \cup {BadEntity("Centroid", "PSHELL"), BadEntity("Mass", "PSHELL"),
          BadEntity("Mass", "PBAR")}

SeqsUpTo(S, n) == UNION {[1..k -> S] : k \in 0..n}

NoRef == [kind |-> "none", xyz |-> Zero3]
CgRef == [kind |-> "cg", xyz |-> Zero3]
XyzRef(p) == [kind |-> "xyz", xyz |-> VQ(p)]

NoSym == [kind |-> "none", v |-> <<>>]
StrSym(s) == [kind |-> "str", v |-> <<s>>]
ListSym(l) == [kind |-> "list", v |-> l]

(***************************************************************************)
(* _mass_properties_new                                                    *)
(***************************************************************************)
\* lines 432-433 and 468-470: the reference point and the zeroed accumulator
NewReferencePoint(reference_point_) == Zero3

NewStart ==
    /\ pc = "call" /\ entry = "new"
    /\ ref' = NewReferencePoint(reference_point)
    /\ mass' = QZero /\ cg' = Zero3 /\ I' = Zero6
    /\ idx' = 1
    /\ pc' = "elements"
    /\ UNCHANGED <<args, model_locals, I_new, err>>

\* lines 514-522, _get_mass_new: one element or point mass of the loop
NewGetMass ==
    /\ pc = "elements" /\ entry = "new"
    /\ idx <= Len(entities)
    /\ LET e == entities[idx]
           r == IncrementInertia(e.c, ref, e.m, mass, cg, I)
       IN  IF e.fails # "none"
           THEN /\ pc' = "raised" /\ err' = "ElementError"
                /\ UNCHANGED <<idx, mass, cg, I>>
           ELSE /\ mass' = r.mass /\ cg' = r.cg /\ I' = r.I
                /\ idx' = idx + 1
                /\ UNCHANGED <<pc, err>>
    /\ UNCHANGED <<args, model_locals, ref, I_new>>

\* lines 524-535: _apply_nsm without an nsm_id returns mass as it is;
\* then cg is divided by a non-zero mass
NewApplyNsm ==
    /\ pc = "elements" /\ entry = "new"
    /\ idx > Len(entities)
    /\ nsm_id = <<>>
    /\ cg' = IF QIsZero(mass) THEN cg ELSE VDiv(cg, mass)
    /\ pc' = "symmetry"
    /\ UNCHANGED <<args, model_locals, ref, idx, mass, I, I_new, err>>

\* lines 536-538
NewApplyMassSymmetry ==
    /\ pc = "symmetry" /\ entry \in {"new", "model"}
    /\ LET r == ApplyMassSymmetry(sym_axis, scale, aero, aeros, wtmass, mass, cg, I)
       IN  IF r.raised
           THEN /\ pc' = "raised" /\ err' = "InvalidSymmetryAxis"
                /\ UNCHANGED <<mass, cg, I>>
           ELSE /\ pc' = "done"
                /\ mass' = r.mass /\ cg' = r.cg /\ I' = r.inertia
                /\ UNCHANGED err
    /\ UNCHANGED <<args, model_locals, ref, idx, I_new>>

(***************************************************************************)
(* _mass_properties(model, elements, masses, reference_point)              *)
(***************************************************************************)
\* lines 128-132 and 146-151
LegacyStart ==
    /\ pc = "call" /\ entry = "legacy"
    /\ I' = Zero6 /\ cg' = Zero3 /\ mass' = QZero
    /\ idx' = 1
    /\ IF reference_point.kind = "cg"
       THEN pc' = "pass1" /\ UNCHANGED ref
       ELSE pc' = "pass2" /\ ref' = reference_point.xyz
    /\ UNCHANGED <<args, model_locals, I_new, err>>

\* lines 133-141: an entity whose Centroid() or Mass() raises is passed over
Pass1Counts(e) == e.fails = "none"

LegacyPass1Step ==
    /\ pc = "pass1" /\ idx <= Len(entities)
    /\ LET e == entities[idx]
       IN  IF Pass1Counts(e)
           THEN /\ mass' = QAdd(mass, e.m)
                /\ cg' = VAdd(cg, VScale(e.m, e.c))
           ELSE UNCHANGED <<mass, cg>>
    /\ idx' = idx + 1
    /\ UNCHANGED <<args, model_locals, pc, ref, I, I_new, err>>

\* lines 142-151 without the early return: a zero pass-1 mass falls through
\* to the second pass with the reference point left as it was
LegacyPass1EndFallsThrough ==
    /\ pc = "pass1" /\ idx > Len(entities)
    /\ ref' = IF QIsZero(mass) THEN ref ELSE VDiv(cg, mass)
    /\ mass' = QZero /\ cg' = Zero3
    /\ idx' = 1
    /\ pc' = "pass2"
    /\ UNCHANGED <<args, model_locals, I, I_new, err>>

\* lines 142-151
LegacyPass1End ==
    /\ pc = "pass1" /\ idx > Len(entities)
    /\ IF QIsZero(mass)
       THEN /\ pc' = "done"
            /\ UNCHANGED <<ref, idx, mass, cg>>
       ELSE /\ ref' = VDiv(cg, mass)
            /\ mass' = QZero /\ cg' = Zero3
            /\ idx' = 1
            /\ pc' = "pass2"
    /\ UNCHANGED <<args, model_locals, I, I_new, err>>

\* lines 152-182
LegacyPass2Step ==
    /\ pc = "pass2" /\ idx <= Len(entities)
    /\ LET e == entities[idx]
           d == VSub(e.c, ref)
           x == d[1]  y == d[2]  z == d[3]
           x2 == QMul(x, x)  y2 == QMul(y, y)  z2 == QMul(z, z)
       IN  CASE e.fails = "Centroid" ->
                  /\ idx' = idx + 1
                  /\ UNCHANGED <<pc, mass, cg, I, err>>
             [] e.fails = "Mass" /\ e.ptype = "PSHELL" ->
                  /\ pc' = "raised" /\ err' = "ElementError"
                  /\ UNCHANGED <<idx, mass, cg, I>>
             [] e.fails = "Mass" /\ e.ptype # "PSHELL" ->
                  /\ idx' = idx + 1
                  /\ UNCHANGED <<pc, mass, cg, I, err>>
             [] OTHER ->
                  /\ I' = <<QAdd(I[1], QMul(e.m, QAdd(y2, z2))),
                            QAdd(I[2], QMul(e.m, QAdd(x2, z2))),
                            QAdd(I[3], QMul(e.m, QAdd(x2, y2))),
                            QAdd(I[4], QMul(QMul(e.m, x), y)),
                            QAdd(I[5], QMul(QMul(e.m, x), z)),
                            QAdd(I[6], QMul(QMul(e.m, y), z))>>
                  /\ mass' = QAdd(mass, e.m)
                  /\ cg' = VAdd(cg, VScale(e.m, e.c))
                  /\ idx' = idx + 1
                  /\ UNCHANGED <<pc, err>>
    /\ UNCHANGED <<args, model_locals, ref, I_new>>

\* lines 237-239
LegacyFinish ==
    /\ pc = "pass2" /\ idx > Len(entities)
    /\ cg' = IF QIsZero(mass) THEN cg ELSE VDiv(cg, mass)
    /\ pc' = "done"
    /\ UNCHANGED <<args, model_locals, ref, idx, mass, I, I_new, err>>

(***************************************************************************)
(* A point mass accumulated about xyz_ref, then transform_inertia to       *)
(* xyz_ref2.                                                               *)
(***************************************************************************)
TransformIncrement ==
    /\ pc = "call" /\ entry = "transform"
    /\ LET e == entities[1]
           r == IncrementInertia(e.c, reference_point.xyz, e.m, QZero, Zero3, Zero6)
       IN  /\ mass' = r.mass /\ cg' = r.cg /\ I' = r.I
    /\ ref' = reference_point.xyz
    /\ idx' = 2
    /\ pc' = "accumulated"
    /\ UNCHANGED <<args, model_locals, I_new, err>>

TransformInertia ==
    /\ pc = "accumulated" /\ entry = "transform"
    /\ I_new' = transform_inertia(mass, entities[1].c, ref, xyz_ref2, I)
    /\ pc' = "done"
    /\ UNCHANGED <<args, model_locals, ref, idx, mass, cg, I, err>>

(***************************************************************************)
(* _mass_properties_new over a model with typed elements (entry "model").  *)
(*                                                                         *)
(* An element is reduced to what _get_mass_new reads of it: its type, its  *)
(* property id and property type, size (the length, area or volume that    *)
(* the node positions give), mpl (the mass per unit of size that the       *)
(* property gives), centroid (the mean of the node positions), and what    *)
(* its own methods return: Mass, Centroid, or an exception (fails).        *)
(* Shell thicknesses are positive and tflag is 0 or 1.                     *)
(***************************************************************************)
\* lines 496-513 without the first line of the list
no_mass_without_springs ==
    {"CDAMP1", "CDAMP2", "CDAMP3", "CDAMP4", "CDAMP5",
     "CBUSH", "CBUSH1D", "CBUSH2D", "CVISC", "CGAP",
     "CFAST",
     "CRAC2D", "CRAC3D",
     "CSSCHD", "CAERO1", "CAERO2", "CAERO3", "CAERO4", "CAERO5",
     "CBARAO", "CORD1R", "CORD2R", "CORD1C", "CORD2C", "CORD1S", "CORD2S",
     "CORD3G", "CONV", "CONVM", "CLOAD",
     "CHBDYG", "CHBDYE", "CHBDYP",
     "CTRAX3", "CTRAX6", "CQUADX8", "CQUADX4",
     "CPLSTN3", "CPLSTN6", "CPLSTN4", "CPLSTN8",
     "ASET", "ASET1", "BSET", "BSET1", "CSET", "CSET1",
     "QSET", "QSET1", "USET", "USET1"}

\* lines 496-513
no_mass ==
    {"CELAS1", "CELAS2", "CELAS3", "CELAS4",
     "CDAMP1", "CDAMP2", "CDAMP3", "CDAMP4", "CDAMP5",
     "CBUSH", "CBUSH1D", "CBUSH2D", "CVISC", "CGAP",
     "CFAST",
     "CRAC2D", "CRAC3D",
     "CSSCHD", "CAERO1", "CAERO2", "CAERO3", "CAERO4", "CAERO5",
     "CBARAO", "CORD1R", "CORD2R", "CORD1C", "CORD2C", "CORD1S", "CORD2S",
     "CORD3G", "CONV", "CONVM", "CLOAD",
     "CHBDYG", "CHBDYE", "CHBDYP",
     "CTRAX3", "CTRAX6", "CQUADX8", "CQUADX4",
     "CPLSTN3", "CPLSTN6", "CPLSTN4", "CPLSTN8",
     "ASET", "ASET1", "BSET", "BSET1", "CSET", "CSET1",
     "QSET", "QSET1", "USET", "USET1"}

\* the branches of _get_mass_new (lines 555-994)
RodTypes == {"CROD", "CONROD"}
TriTypes == {"CTRIA3", "CTRIA6", "CTRIAR"}
QuadTypes == {"CQUAD4", "CQUAD8", "CQUADR"}
MassTypes == {"CONM1", "CONM2", "CMASS1", "CMASS2", "CMASS3", "CMASS4"}
SolidTypes == {"CTETRA", "CPYRAM", "CPENTA", "CHEXA"}
RuleTypes ==
    RodTypes \cup TriTypes \cup QuadTypes \cup MassTypes \cup SolidTypes
    \cup {"CTUBE", "CBAR", "CQUAD", "CSHEAR"}

\* etype.startswith('C'), over the type names of the models: the names that
\* do not start with C are those of the sets and of the properties
startswith_C(etype) ==
    etype \notin {"ASET", "ASET1", "BSET", "BSET1", "QSET", "QSET1", "USET",
                  "USET1", "PSHELL", "PCOMP", "PSHEAR", "PROD", "PTUBE", "PBAR",
                  "PBEAM"}

\* defaultdict(list): d[k] and d[k].append(v)
Get(d, k) == IF k \in DOMAIN d THEN d[k] ELSE <<>>
AppendTo(d, k, v) ==
    [x \in DOMAIN d \cup {k} |-> IF x = k THEN Append(Get(d, k), v) ELSE d[x]]

\* ndarray.sort() of the keys of a dict
RECURSIVE SortedSeq(_)
SortedSeq(S) ==
    IF S = {} THEN <<>>
    ELSE LET lo == CHOOSE x \in S : \A y \in S : x <= y
         IN  <<lo>> \o SortedSeq(S \ {lo})

\* seq[mask] for a boolean mask, given as the set of the indices kept
RECURSIVE MaskFrom(_, _, _)
MaskFrom(seq, keep, i) ==
    IF i > Len(seq) THEN <<>>
    ELSE (IF i \in keep THEN <<seq[i]>> ELSE <<>>) \o MaskFrom(seq, keep, i + 1)
Mask(seq, keep) == MaskFrom(seq, keep, 1)

\* np.searchsorted(a, v) on a sorted a: the 0-based index of the first entry
\* that is not less than v, len(a) when there is none
searchsorted(a, v) == Cardinality({i \in DOMAIN a : a[i] < v})

\* lines 541-546: raised is the IndexError of all_eids[ieids]
get_sub_eids(all_eids, eids) ==
    LET ieids == [i \in DOMAIN eids |-> searchsorted(all_eids, eids[i])]
        raised == \E i \in DOMAIN eids : ieids[i] >= Len(all_eids)
    IN  [raised |-> raised,
         eids2 |-> IF raised THEN <<>>
                   ELSE Mask(eids, {i \in DOMAIN eids :
                                       all_eids[ieids[i] + 1] = eids[i]})]

\* lines 68-97: raised is the AssertionError of lines 89 and 95; the
\* selections are kept as the sets of the selected ids
mass_properties_elements_init(elements_, masses_, element_ids_, mass_ids_) ==
    IF element_ids_ = <<>> /\ mass_ids_ = <<>>
    THEN [raised |-> FALSE,
          elements |-> DOMAIN elements_, masses |-> DOMAIN masses_]
    ELSE [raised |-> \/ element_ids_ # <<>> /\ DOMAIN elements_ = {}
                     \/ mass_ids_ # <<>> /\ DOMAIN masses_ = {},
          elements |-> IF element_ids_ = <<>> THEN {}
                       ELSE {eid \in DOMAIN elements_ : eid \in element_ids_[1]},
          masses |-> IF mass_ids_ = <<>> THEN {}
                     ELSE {eid \in DOMAIN masses_ : eid \in mass_ids_[1]}]

\* lines 472-476
all_eids_sorted == SortedSeq(DOMAIN elements)
all_mass_ids_sorted == SortedSeq(DOMAIN masses)

QPositive(q) == q[1] > 0

(***************************************************************************)
(* _get_mass_new for one element of the family etype: what it raises, or   *)
(* what it adds to the accumulator (add, m, c), which contribution lists   *)
(* it extends (key, pid, size, nsm_c; with_c is FALSE when no NSM centroid *)
(* is appended) and whether it reports the type as having no mass.         *)
(***************************************************************************)
Outcome == [err |-> "", add |-> FALSE, m |-> QZero, c |-> Zero3,
            is_area |-> FALSE, key |-> "", pid |-> 0, size |-> QZero,
            with_c |-> TRUE, report |-> FALSE]
Raises(e) == [Outcome EXCEPT !.err = e]

\* the comparison with the element's own methods: massi != elem.Mass() when
\* with_mass, then not np.array_equal(centroid, elem.Centroid()) when
\* with_centroid; a method that raises ends the call
Checked(e, massi, with_mass, with_centroid, out) ==
    IF with_mass /\ e.fails = "Mass" THEN Raises("ElementError")
    ELSE IF with_mass /\ massi # e.Mass THEN Raises("RuntimeError")
    ELSE IF with_centroid /\ e.fails = "Centroid" THEN Raises("ElementError")
    ELSE IF with_centroid /\ e.centroid # e.Centroid THEN Raises("RuntimeError")
    ELSE out

\* lines 555-618: CROD, CONROD, CTUBE, CBAR
LineOutcome(etype, e) ==
    LET massi == QMul(e.mpl, e.size)
        key == CASE etype \in RodTypes /\ e.type = "CONROD" -> "CONROD"
                 [] etype \in RodTypes /\ e.type # "CONROD" -> "PROD"
                 [] etype = "CTUBE" -> "PTUBE"
                 [] OTHER -> "PBAR"
    IN  Checked(e, massi, TRUE, etype = "CBAR",
                [Outcome EXCEPT !.add = TRUE, !.m = massi, !.c = e.centroid,
                                !.key = key,
                                !.pid = IF e.type = "CONROD" THEN -42 ELSE e.pid,
                                !.size = e.size,
                                !.with_c = (etype # "CTUBE")])

\* lines 720-844 and 872-895: CTRIA3/6/R, CQUAD4/8/R, CSHEAR
ShellOutcome(etype, e) ==
    LET massi == QMul(e.size, e.mpl)
        out == [Outcome EXCEPT !.add = TRUE, !.m = massi, !.c = e.centroid,
                               !.is_area = TRUE,
                               !.key = IF etype = "CSHEAR" THEN "PSHEAR" ELSE "PSHELL",
                               !.pid = e.pid, !.size = e.size]
    IN  IF etype = "CSHEAR" THEN Checked(e, massi, TRUE, TRUE, out)
        ELSE IF e.ptype \in {"PSHELL", "PCOMP", "PCOMPG"}
             THEN Checked(e, massi, FALSE, TRUE, out)
        ELSE IF e.ptype = "PLPLANE" THEN Outcome
        ELSE Raises("NotImplementedError")

\* lines 845-870 and 903-989: CQUAD and the solids
VolumeOutcome(etype, e) ==
    LET m == QMul(e.mpl, e.size)
        out == [Outcome EXCEPT !.add = TRUE, !.m = m, !.c = e.centroid]
    IN  IF etype = "CQUAD" /\ e.ptype = "PLPLANE" THEN Outcome
        ELSE IF etype = "CQUAD" /\ e.ptype \notin {"PSHELL", "PCOMP", "PCOMPG"}
             THEN Raises("NotImplementedError")
        ELSE Checked(e, m, TRUE, TRUE, out)

\* lines 896-902: the point masses
PointMassOutcome(e) ==
    IF e.fails # "none" THEN Raises("ElementError")
    ELSE [Outcome EXCEPT !.add = TRUE, !.m = e.Mass, !.c = e.Centroid]

\* lines 994-1014: any other type whose name starts with C
OtherOutcome(etype, e, etypes_skipped_) ==
    IF e.fails # "none" THEN Raises("ElementError")
    ELSE IF QPositive(e.Mass)
         THEN [Outcome EXCEPT !.add = TRUE, !.m = e.Mass, !.c = e.Centroid]
    ELSE IF etype \notin etypes_skipped_
         THEN [Outcome EXCEPT !.report = TRUE]
    ELSE Outcome

ElementOutcome(etype, e, etypes_skipped_) ==
    CASE etype \in RodTypes \cup {"CTUBE", "CBAR"} -> LineOutcome(etype, e)
      [] etype \in TriTypes \cup QuadTypes \cup {"CSHEAR"} -> ShellOutcome(etype, e)
      [] etype \in SolidTypes \cup {"CQUAD"} -> VolumeOutcome(etype, e)
      [] etype \in MassTypes -> PointMassOutcome(e)
      [] OTHER -> OtherOutcome(etype, e, etypes_skipped_)

\* lines 432-494: raised is the AssertionError of _mass_properties_elements_init,
\* whose selections are not used afterwards
ModelStart ==
    /\ pc = "call" /\ entry = "model"
    /\ LET r == mass_properties_elements_init(elements, masses, element_ids, mass_ids)
       IN  IF r.raised
           THEN /\ pc' = "raised" /\ err' = "AssertionError"
                /\ UNCHANGED <<ref, idx, mass, cg, I>>
           ELSE /\ ref' = NewReferencePoint(reference_point)
                /\ mass' = QZero /\ cg' = Zero3 /\ I' = Zero6
                /\ idx' = 1
                /\ pc' = "families"
                /\ UNCHANGED err
    /\ UNCHANGED <<args, model_locals, I_new>>

\* lines 514-522 with 553-556, 991-995: the next item of the type-to-id map,
\* up to the ids that its branch of _get_mass_new loops over
ModelFamily ==
    /\ pc = "families" /\ entry = "model"
    /\ idx <= Len(type_to_id_map)
    /\ LET etype == type_to_id_map[idx].etype
           eids == type_to_id_map[idx].eids
           r == get_sub_eids(IF etype \in MassTypes THEN all_mass_ids_sorted
                             ELSE all_eids_sorted, eids)
       IN  IF etype \in no_mass \/ Len(eids) = 0
              \/ (etype # "CBEND" /\ ~startswith_C(etype))
           THEN /\ idx' = idx + 1
                /\ UNCHANGED <<pc, err, eids2, skip_log>>
           ELSE IF etype = "CBEND"
           THEN /\ skip_log' = Append(skip_log, etype)
                /\ idx' = idx + 1
                /\ UNCHANGED <<pc, err, eids2>>
           ELSE IF r.raised
           THEN /\ pc' = "raised" /\ err' = "IndexError"
                /\ UNCHANGED <<idx, eids2, skip_log>>
           ELSE IF r.eids2 = <<>>
           THEN /\ idx' = idx + 1
                /\ UNCHANGED <<pc, err, eids2, skip_log>>
           ELSE /\ eids2' = r.eids2
                /\ pc' = "family"
                /\ UNCHANGED <<idx, err, skip_log>>
    /\ UNCHANGED <<args, ref, mass, cg, I, I_new, etypes_skipped, nsm_lists, eidsi>>

\* one turn of the loop over eids2 in the family's branch of _get_mass_new
ModelElement ==
    /\ pc = "family" /\ entry = "model"
    /\ LET etype == type_to_id_map[idx].etype
           eid == Head(eids2)
           e == IF etype \in MassTypes THEN masses[eid] ELSE elements[eid]
           out == ElementOutcome(etype, e, etypes_skipped)
           r == IncrementInertia(out.c, ref, out.m, mass, cg, I)
           listed == out.key # ""
       IN  IF out.err # ""
           THEN /\ pc' = "raised" /\ err' = out.err
                /\ UNCHANGED <<idx, mass, cg, I, eids2, etypes_skipped, skip_log,
                               nsm_lists>>
           ELSE /\ IF out.add
                   THEN mass' = r.mass /\ cg' = r.cg /\ I' = r.I
                   ELSE UNCHANGED <<mass, cg, I>>
                /\ IF listed /\ out.is_area
                   THEN /\ area_eids_pids' = AppendTo(area_eids_pids, out.key, <<eid, out.pid>>)
                        /\ areas' = AppendTo(areas, out.key, out.size)
                        /\ nsm_centroids_area' = AppendTo(nsm_centroids_area, out.key, out.c)
                   ELSE UNCHANGED <<area_eids_pids, areas, nsm_centroids_area>>
                /\ IF listed /\ ~out.is_area
                   THEN /\ length_eids_pids' = AppendTo(length_eids_pids, out.key, <<eid, out.pid>>)
                        /\ lengths' = AppendTo(lengths, out.key, out.size)
                        /\ nsm_centroids_length' =
                              IF out.with_c
                              THEN AppendTo(nsm_centroids_length, out.key, out.c)
                              ELSE nsm_centroids_length
                   ELSE UNCHANGED <<length_eids_pids, lengths, nsm_centroids_length>>
                /\ IF out.report
                   THEN /\ etypes_skipped' = etypes_skipped \cup {etype}
                        /\ skip_log' = Append(skip_log, etype)
                   ELSE UNCHANGED <<etypes_skipped, skip_log>>
                /\ eids2' = Tail(eids2)
                /\ IF Tail(eids2) = <<>>
                   THEN pc' = "families" /\ idx' = idx + 1
                   ELSE UNCHANGED <<pc, idx>>
                /\ UNCHANGED err
    /\ UNCHANGED <<args, ref, I_new, eidsi>>

(***************************************************************************)
(* _apply_nsm.  An NSM card is [type, nsm_type, all, ids, value]: all is   *)
(* TRUE for the ids ['ALL'], ids is the list of integer ids otherwise.     *)
(* The accumulator is passed around as the record [I, mass, cg].           *)
(***************************************************************************)
\* the order in which iteritems() yields the keys of the contribution
\* lists: the order of their first append, the map listing the families in
\* this order
AreaKeyOrder == <<"PSHELL", "PSHEAR">>
LengthKeyOrder == <<"PROD", "CONROD", "PTUBE", "PBAR", "PBEAM">>

\* lines 1271-1291
nsm_type_map(nsm_type) ==
    CASE nsm_type \in {"PSHELL", "PCOMP", "PCOMPG"} -> "PSHELL"
      [] nsm_type \in {"PBAR", "PBARL"} -> "PBAR"
      [] nsm_type \in {"PBEAM", "PBEAML", "PBCOMP"} -> "PBEAM"
      [] OTHER -> nsm_type

\* the entries of one key as rows (eid, pid, area or length, is_area, centroid)
KeyRows(eids_pids_, sizes_, centroids_, key, is_area_) ==
    [i \in 1..Len(Get(eids_pids_, key)) |->
        [eid |-> eids_pids_[key][i][1], pid |-> eids_pids_[key][i][2],
         area_length |-> sizes_[key][i], is_area |-> is_area_,
         nsm_centroid |-> centroids_[key][i]]]

RECURSIVE AllRows(_, _, _, _, _, _)
AllRows(eids_pids_, sizes_, centroids_, order, is_area_, n) ==
    IF n = 0 THEN <<>>
    ELSE AllRows(eids_pids_, sizes_, centroids_, order, is_area_, n - 1)
         \o KeyRows(eids_pids_, sizes_, centroids_, order[n], is_area_)

\* rows[np.argsort(eids)]
RECURSIVE SortRows(_)
SortRows(rows) ==
    IF rows = <<>> THEN <<>>
    ELSE LET i == CHOOSE j \in DOMAIN rows :
                     \A k \in DOMAIN rows :
                        rows[j].eid < rows[k].eid \/ (rows[j].eid = rows[k].eid /\ j <= k)
         IN  <<rows[i]>> \o SortRows(Mask(rows, DOMAIN rows \ {i}))

\* lines 1031-1109: raised is the AssertionError of lines 1075 and 1090;
\* stacked is FALSE when the function returns at line 1099, with the
\* area-or-length, is-area and centroid values left as Python lists
setup_apply_nsm(area_eids_pids_, areas_, nsm_centroids_area_, length_eids_pids_, lengths_, nsm_centroids_length_) ==
    LET raised ==
            \/ \E k \in DOMAIN area_eids_pids_ :
                  Len(area_eids_pids_[k]) # Len(Get(nsm_centroids_area_, k))
            \/ \E k \in DOMAIN length_eids_pids_ :
                  Len(length_eids_pids_[k]) # Len(Get(nsm_centroids_length_, k))
        rows == AllRows(area_eids_pids_, areas_, nsm_centroids_area_,
                        AreaKeyOrder, TRUE, Len(AreaKeyOrder))
                \o AllRows(length_eids_pids_, lengths_, nsm_centroids_length_,
                           LengthKeyOrder, FALSE, Len(LengthKeyOrder))
        stacked == DOMAIN area_eids_pids_ # {}
    IN  [raised |-> raised,
         stacked |-> stacked,
         rows |-> IF raised THEN <<>>
                  ELSE IF stacked THEN SortRows(rows) ELSE rows]

Min2(a, b) == IF a < b THEN a ELSE b

\* the accumulator after the point masses nsm_value * area[i] / denom at
\* centroids[i], for i = 1..n in this order
RECURSIVE AddShares(_, _, _, _, _, _, _)
AddShares(st, area, denom, centroids, nsm_value, reference_point_, n) ==
    IF n = 0 THEN st
    ELSE LET p == AddShares(st, area, denom, centroids, nsm_value,
                            reference_point_, n - 1)
         IN  IncrementInertia(centroids[n], reference_point_,
                              QMul(nsm_value, QDiv(area[n], denom)),
                              p.mass, p.cg, p.I)

\* the sum of the first n entries
RECURSIVE SumFirst(_, _)
SumFirst(area, n) == IF n = 0 THEN QZero ELSE QAdd(SumFirst(area, n - 1), area[n])

\* lines 1111-1167 with the share of line 1158 taken from the square of the
\* card's value
combine_prop_weighted_area_length_simple_squared(eids, area, centroids, nsm_value, reference_point_, st, divide_by_sum) ==
    LET n == Min2(Len(eids), Len(area))
        denom == IF divide_by_sum THEN SumFirst(area, n) ELSE Q(1)
    IN  IF Len(area) # Len(centroids)
        THEN [err |-> "RuntimeError", st |-> st]
        ELSE [err |-> "",
              st |-> AddShares(st, area, denom, centroids,
                               QMul(nsm_value, nsm_value), reference_point_, n)]

\* lines 1111-1167; both loops run over zip(eids, area, centroids)
combine_prop_weighted_area_length_simple(eids, area, centroids, nsm_value, reference_point_, st, divide_by_sum) ==
    LET n == Min2(Len(eids), Len(area))
        denom == IF divide_by_sum THEN SumFirst(area, n) ELSE Q(1)
    IN  IF Len(area) # Len(centroids)
        THEN [err |-> "RuntimeError", st |-> st]
        ELSE [err |-> "",
              st |-> AddShares(st, area, denom, centroids, nsm_value,
                               reference_point_, n)]

Column(rows, f) == [i \in DOMAIN rows |-> rows[i][f]]

\* lines 1383-1403 and 1428-1447: the loop over the property ids of the
\* card, from the n-th on; eidsi stays bound to the last selection
RECURSIVE ForPids(_, _, _, _, _, _, _, _)
ForPids(pids, n, rows, nsm_value, reference_point_, st, eidsi_, divide_by_sum) ==
    IF n > Len(pids) THEN [err |-> "", st |-> st, eidsi |-> eidsi_]
    ELSE LET sel == Mask(rows, {i \in DOMAIN rows : rows[i].pid = pids[n]})
             r == combine_prop_weighted_area_length_simple(
                      Column(sel, "eid"), Column(sel, "area_length"),
                      Column(sel, "nsm_centroid"), nsm_value, reference_point_,
                      st, divide_by_sum)
         IN  IF r.err # ""
             THEN [err |-> r.err, st |-> st, eidsi |-> <<Column(sel, "eid")>>]
             ELSE ForPids(pids, n + 1, rows, nsm_value, reference_point_, r.st,
                          <<Column(sel, "eid")>>, divide_by_sum)

\* lines 1359-1447: a card NSM, NSM1 or NSML that targets properties; rows
\* are the entries of the card's family key, in the order of their lists;
\* uses_eidsi is TRUE in the branch of lines 1404-1447, whose 'ALL' case
\* passes the local eidsi
nsm_property(nsm, rows, uses_eidsi, reference_point_, st, eidsi_, divide_by_sum) ==
    IF rows = <<>> THEN [err |-> "", st |-> st, eidsi |-> eidsi_]
    ELSE IF nsm.all /\ uses_eidsi /\ eidsi_ = <<>>
    THEN [err |-> "UnboundLocalError", st |-> st, eidsi |-> eidsi_]
    ELSE IF nsm.all
    THEN LET r == combine_prop_weighted_area_length_simple(
                      IF uses_eidsi THEN eidsi_[1] ELSE Column(rows, "eid"),
                      Column(rows, "area_length"), Column(rows, "nsm_centroid"),
                      nsm.value, reference_point_, st, divide_by_sum)
         IN  [err |-> r.err, st |-> r.st, eidsi |-> eidsi_]
    ELSE ForPids(nsm.ids, 1, rows, nsm.value, reference_point_, st, eidsi_,
                 divide_by_sum)

\* lines 1489-1503: the property card types of key_map[nsm_type], the empty
\* set standing for the KeyError
key_map(nsm_type, is_area_) ==
    CASE is_area_ /\ nsm_type \in {"PSHELL", "PCOMP", "PCOMPG"} ->
            {"PSHELL", "PCOMP", "PCOMPG"}
      [] ~is_area_ /\ nsm_type = "PBAR" -> {"PBAR", "PBARL"}
      [] ~is_area_ /\ nsm_type = "PBEAM" -> {"PBEAM", "PBEAML", "PBCOMP"}
      [] ~is_area_ /\ nsm_type = "PROD" -> {"PROD"}
      [] OTHER -> {}

\* the ids the map holds for the card types keys
MapIds(type_to_id_map_, keys) ==
    UNION {{type_to_id_map_[i].eids[j] : j \in DOMAIN type_to_id_map_[i].eids} :
              i \in {k \in DOMAIN type_to_id_map_ : type_to_id_map_[k].etype \in keys}}

\* lines 1169-1200, over the sorted property ids upids[1..n]
RECURSIVE combine_prop_weighted_area_length(_, _, _, _, _, _, _)
combine_prop_weighted_area_length(rows, upids, n, area_sum, nsm_value, reference_point_, st) ==
    IF n = 0 THEN st
    ELSE LET p == combine_prop_weighted_area_length(
                      rows, upids, n - 1, area_sum, nsm_value, reference_point_, st)
             sel == Mask(rows, {i \in DOMAIN rows : rows[i].pid = upids[n]})
         IN  AddShares(p, Column(sel, "area_length"), area_sum,
                       Column(sel, "nsm_centroid"), nsm_value, reference_point_,
                       Len(sel))

\* lines 1485-1556: an NSML1 card that targets properties; rows are the
\* entries of the card's family key
get_nsml1_prop(type_to_id_map_, nsm, nsm_type, rows, is_area_, reference_point_, st) ==
    LET keys == key_map(nsm_type, is_area_)
        present == {k \in keys : \E i \in DOMAIN type_to_id_map_ :
                                    type_to_id_map_[i].etype = k}
        ids == IF nsm.all THEN MapIds(type_to_id_map_, keys)
               ELSE {nsm.ids[i] : i \in DOMAIN nsm.ids}
        pids_to_apply == {rows[i].pid : i \in DOMAIN rows} \cap ids
        upids == SortedSeq(pids_to_apply)
        sel == Mask(rows, {i \in DOMAIN rows : rows[i].pid \in pids_to_apply})
        area_sum == SumFirst(Column(sel, "area_length"), Len(sel))
    IN  IF keys = {} THEN [err |-> "KeyError", st |-> st]
        ELSE IF rows = <<>> THEN [err |-> "", st |-> st]
        ELSE IF nsm.all /\ present = {} THEN [err |-> "ValueError", st |-> st]
        ELSE IF pids_to_apply = {} THEN [err |-> "AssertionError", st |-> st]
        ELSE [err |-> "",
              st |-> combine_prop_weighted_area_length(
                         rows, upids, Len(upids), area_sum, nsm.value,
                         reference_point_, st)]

IsAscending(s) == \A i \in 1..(Len(s) - 1) : s[i] < s[i + 1]

MixedLineArea == "RuntimeError: Mixed Line/Area element types"

(***************************************************************************)
(* lines 1558-1655, _nsm1_element: the set of its possible outcomes.       *)
(*                                                                         *)
(* np.searchsorted is defined on a sorted array only: on the unsorted ids  *)
(* of a model without area elements an id greater than every element id    *)
(* is not found, an id not greater than any is, and any other id may or    *)
(* may not pass the test of line 1591.  When some ids pass it and others   *)
(* do not, line 1605 compares arrays of different lengths: numpy raises    *)
(* ValueError, or answers False, depending on its version.  The Python     *)
(* lists that _setup_apply_nsm returns without area elements cannot be     *)
(* indexed by isort (TypeError at line 1607).                              *)
(***************************************************************************)
nsm1_element(nsm_ids, setup, nsm_value, reference_point_, st, divide_by_sum) ==
    LET rows == setup.rows
        eids == Column(rows, "eid")
        sorted == IsAscending(eids)
        Ix == DOMAIN nsm_ids
        isort == [i \in Ix |-> searchsorted(eids, nsm_ids[i])]
        can_pass(i) == IF sorted THEN isort[i] # Len(eids)
                       ELSE \E k \in DOMAIN eids : nsm_ids[i] <= eids[k]
        can_fail(i) == IF sorted THEN isort[i] = Len(eids)
                       ELSE \E k \in DOMAIN eids : nsm_ids[i] > eids[k]
        some_pass == \E i \in Ix : can_pass(i)
        all_fail == \A i \in Ix : can_fail(i)
        all_pass == \A i \in Ix : can_pass(i)
        mismatch == \E i, j \in Ix : i # j /\ can_pass(i) /\ can_fail(j)
        iwhere == {i \in Ix : eids[isort[i] + 1] = nsm_ids[i]}
        found == Mask([i \in Ix |-> rows[isort[i] + 1]], iwhere)
        kinds == {found[i].is_area : i \in DOMAIN found}
        area_length_actual == Column(found, "area_length")
        denom == IF divide_by_sum
                 THEN SumFirst(area_length_actual, Len(found)) ELSE Q(1)
        raise(e) == [err |-> e, st |-> st]
    IN  (IF all_fail THEN {[err |-> "", st |-> st]} ELSE {})
        \cup (IF mismatch THEN {raise("ValueError")} ELSE {})
        \cup (IF some_pass /\ ~setup.stacked THEN {raise("TypeError")} ELSE {})
        \cup (IF mismatch /\ setup.stacked THEN {raise(MixedLineArea)} ELSE {})
        \cup (IF setup.stacked /\ all_pass /\ Ix # {}
              THEN (IF Cardinality(kinds) # 1 THEN {raise(MixedLineArea)}
                    ELSE {[err |-> "",
                           st |-> AddShares(st, area_length_actual, denom,
                                            Column(found, "nsm_centroid"),
                                            nsm_value, reference_point_,
                                            Len(found))]})
              ELSE {})

\* lines 1336-1342 and 1449-1455: the ids an ELEMENT or CONROD card names;
\* each id is looked up on its own, so that the order of the keys of
\* model.elements changes no sum: they are listed in ascending order
nsm_ids_of(nsm, nsm_type, elements_, type_to_id_map_) ==
    IF ~nsm.all THEN nsm.ids
    ELSE IF nsm_type = "CONROD"
         THEN SortedSeq(MapIds(type_to_id_map_, {"CONROD"}))
    ELSE SortedSeq(DOMAIN elements_)

\* lines 1312-1465: one card of the loop; the set of its possible outcomes
apply_nsm_card(nsm, elements_, type_to_id_map_, area_eids_pids_, areas_, nsm_centroids_area_, length_eids_pids_, lengths_, nsm_centroids_length_, reference_point_, st, eidsi_) ==
    LET nsm_type == nsm_type_map(nsm.nsm_type)
        divide_by_sum == nsm.type \in {"NSML1", "NSML"}
        setup == setup_apply_nsm(area_eids_pids_, areas_, nsm_centroids_area_,
                                 length_eids_pids_, lengths_, nsm_centroids_length_)
        area_rows == KeyRows(area_eids_pids_, areas_, nsm_centroids_area_,
                             nsm_type, TRUE)
        length_rows == KeyRows(length_eids_pids_, lengths_, nsm_centroids_length_,
                               nsm_type, FALSE)
        keep(r) == [err |-> r.err, st |-> r.st, eidsi |-> eidsi_]
        by_element ==
            {keep(r) : r \in nsm1_element(
                                nsm_ids_of(nsm, nsm_type, elements_, type_to_id_map_),
                                setup, nsm.value, reference_point_, st,
                                divide_by_sum)}
        not_implemented == {[err |-> "NotImplementedError", st |-> st, eidsi |-> eidsi_]}
    IN  CASE nsm.type = "NSML1" /\ nsm_type = "PSHELL" ->
                {keep(get_nsml1_prop(type_to_id_map_, nsm, nsm_type, area_rows,
                                     TRUE, reference_point_, st))}
          [] nsm.type = "NSML1" /\ nsm_type \in {"PBAR", "PBEAM", "PROD", "PTUBE"} ->
                {keep(get_nsml1_prop(type_to_id_map_, nsm, nsm_type, length_rows,
                                     FALSE, reference_point_, st))}
          [] nsm.type \in {"NSM1", "NSML", "NSM"} /\ nsm_type = "PSHELL" ->
                {nsm_property(nsm, area_rows, FALSE, reference_point_, st,
                              eidsi_, divide_by_sum)}
          [] nsm.type \in {"NSM1", "NSML", "NSM"}
             /\ nsm_type \in {"PBAR", "PBEAM", "PROD", "PTUBE"} ->
                {nsm_property(nsm, length_rows, TRUE, reference_point_, st,
                              eidsi_, divide_by_sum)}
          [] nsm.type \in {"NSML1", "NSM1", "NSML", "NSM"}
             /\ nsm_type \in {"ELEMENT", "CONROD"} -> by_element
          [] nsm.type \in {"NSML1", "NSM1", "NSML", "NSM"}
             /\ nsm_type \notin {"PSHELL", "PBAR", "PBEAM", "PROD", "PTUBE",
                                 "ELEMENT", "CONROD"} -> not_implemented
          [] OTHER -> {[err |-> "", st |-> st, eidsi |-> eidsi_]}

NoNsmId == nsm_id = <<>> \/ nsm_id = <<0>>

\* lines 524-535 with 1261-1304: the calls that _apply_nsm returns from
\* before its loop, and the division of cg by a non-zero mass
ModelApplyNsm ==
    /\ pc = "families" /\ entry = "model"
    /\ idx > Len(type_to_id_map)
    /\ LET setup == setup_apply_nsm(area_eids_pids, areas, nsm_centroids_area,
                                    length_eids_pids, lengths, nsm_centroids_length)
       IN  IF NoNsmId \/ Len(nsms) = 0 \/ (~setup.raised /\ setup.rows = <<>>)
           THEN /\ cg' = IF QIsZero(mass) THEN cg ELSE VDiv(cg, mass)
                /\ pc' = "symmetry"
                /\ UNCHANGED <<idx, err>>
           ELSE IF setup.raised
           THEN /\ pc' = "raised" /\ err' = "AssertionError"
                /\ UNCHANGED <<idx, cg>>
           ELSE /\ pc' = "nsm" /\ idx' = 1
                /\ UNCHANGED <<cg, err>>
    /\ UNCHANGED <<args, model_locals, ref, mass, I, I_new>>

\* lines 1312-1465: one card of the loop of _apply_nsm
ModelNsmCard ==
    /\ pc = "nsm" /\ entry = "model"
    /\ idx <= Len(nsms)
    /\ \E out \in apply_nsm_card(nsms[idx], elements, type_to_id_map,
                                 area_eids_pids, areas, nsm_centroids_area,
                                 length_eids_pids, lengths, nsm_centroids_length,
                                 ref, [I |-> I, mass |-> mass, cg |-> cg], eidsi) :
          IF out.err # ""
          THEN /\ pc' = "raised" /\ err' = out.err
               /\ UNCHANGED <<idx, mass, cg, I, eidsi>>
          ELSE /\ mass' = out.st.mass /\ cg' = out.st.cg /\ I' = out.st.I
               /\ eidsi' = out.eidsi
               /\ idx' = idx + 1
               /\ UNCHANGED <<pc, err>>
    /\ UNCHANGED <<args, ref, I_new, eids2, etypes_skipped, skip_log, nsm_lists>>

\* lines 1483 and 533-535: _apply_nsm returns the mass; cg is divided by it
ModelNsmEnd ==
    /\ pc = "nsm" /\ entry = "model"
    /\ idx > Len(nsms)
    /\ cg' = IF QIsZero(mass) THEN cg ELSE VDiv(cg, mass)
    /\ pc' = "symmetry"
    /\ UNCHANGED <<args, model_locals, ref, idx, mass, I, I_new, err>>

(***************************************************************************)
(* Specifications.                                                         *)
(***************************************************************************)
InitLocals ==
    /\ pc = "call"
    /\ ref = Zero3 /\ idx = 0
    /\ mass = QZero /\ cg = Zero3 /\ I = Zero6 /\ I_new = Zero6
    /\ err = ""
    /\ eids2 = <<>> /\ etypes_skipped = {} /\ skip_log = <<>>
    /\ area_eids_pids = <<>> /\ areas = <<>> /\ nsm_centroids_area = <<>>
    /\ length_eids_pids = <<>> /\ lengths = <<>> /\ nsm_centroids_length = <<>>
    /\ eidsi = <<>>

NoCards == nsm_id = <<>> /\ aero = <<>> /\ aeros = <<>> /\ nsms = <<>>

\* the entities are given directly: no typed model behind them
NoModel ==
    /\ elements = <<>> /\ masses = <<>> /\ type_to_id_map = <<>>
    /\ element_ids = <<>> /\ mass_ids = <<>>

\* both entry points over every entity list; sym_axis absent or malformed
Init ==
    /\ InitLocals /\ NoCards /\ NoModel
    /\ entities \in SeqsUpTo(Entities, MaxEntities)
    /\ \/ /\ entry = "new"
          /\ reference_point \in {NoRef, CgRef} \cup {XyzRef(p) : p \in RefPoints}
          /\ sym_axis \in {NoSym, StrSym("x")}
       \/ /\ entry = "legacy"
          /\ reference_point \in {CgRef} \cup {XyzRef(p) : p \in RefPoints}
          /\ sym_axis = NoSym
    /\ scale = <<>> /\ wtmass = <<>>
    /\ xyz_ref2 = Zero3

Next ==
    \/ NewStart \/ NewGetMass \/ NewApplyNsm \/ NewApplyMassSymmetry
    \/ LegacyStart \/ LegacyPass1Step \/ LegacyPass1End
    \/ LegacyPass2Step \/ LegacyFinish

Spec == Init /\ [][Next]_vars

\* _mass_properties_new over every sym_axis, scale and WTMASS
SymStrings == {"no", "NO", "xy", "yz", "xz", "XZ", "x", "y", "z", "xyz"}
SymListTokens == {"no", "xy", "yz", "xz"}
Flags == {f \in [is_symmetric_xy : BOOLEAN, is_anti_symmetric_xy : BOOLEAN,
                 is_symmetric_xz : BOOLEAN, is_anti_symmetric_xz : BOOLEAN] :
            /\ ~(f.is_symmetric_xy /\ f.is_anti_symmetric_xy)
            /\ ~(f.is_symmetric_xz /\ f.is_anti_symmetric_xz)}
SymEntities == {GoodEntity(1, <<1, 2, 3>>), GoodEntity(MaxMass, <<-2, 1, 1>>)}

InitSym ==
    /\ InitLocals /\ NoModel
    /\ entry = "new"
    /\ entities \in SeqsUpTo(SymEntities, MaxEntities)
    /\ reference_point = NoRef
    /\ nsm_id = <<>> /\ nsms = <<>>
    /\ \/ /\ sym_axis \in {StrSym(s) : s \in SymStrings}
                          \cup {ListSym(l) : l \in SeqsUpTo(SymListTokens, MaxSymLen)}
          /\ aero = <<>> /\ aeros = <<>>
       \/ /\ sym_axis = NoSym
          \* the flags of AERO and AEROS are the same when both are defined
          /\ \E f \in Flags :
                /\ aero \in {<<>>, <<f>>}
                /\ aeros \in {<<>>, <<f>>}
    /\ scale \in {<<>>, <<Q(2)>>}
    /\ wtmass \in {<<>>, <<Q(3)>>}
    /\ xyz_ref2 = Zero3

NextSym == NewStart \/ NewGetMass \/ NewApplyNsm \/ NewApplyMassSymmetry

SpecSym == InitSym /\ [][NextSym]_vars

\* a point mass about A, transformed to B
Grid == {<<x, y, z>> : x \in 0..MaxCoord, y \in 0..MaxCoord, z \in 0..MaxCoord}

InitTransform ==
    /\ InitLocals /\ NoCards /\ NoModel
    /\ entry = "transform"
    /\ entities \in {<<GoodEntity(m, c)>> : m \in 1..MaxMass, c \in Grid}
    /\ reference_point \in {XyzRef(p) : p \in Grid}
    /\ xyz_ref2 \in {VQ(p) : p \in Grid}
    /\ sym_axis = NoSym
    /\ scale = <<>> /\ wtmass = <<>>

NextTransform == TransformIncrement \/ TransformInertia

SpecTransform == InitTransform /\ [][NextTransform]_vars

(***************************************************************************)
(* Models with typed elements.                                             *)
(***************************************************************************)
\* an element whose own Mass() and Centroid() agree with its geometry
Element(type, pid, ptype, size, mpl, c) ==
    [type |-> type, pid |-> pid, ptype |-> ptype, size |-> Q(size),
     mpl |-> Q(mpl), centroid |-> VQ(c), Mass |-> Q(size * mpl),
     Centroid |-> VQ(c), fails |-> "none"]

\* a card that is no structural element: only its type counts, and its
\* methods may raise
Card(type, m, f) ==
    [type |-> type, pid |-> 0, ptype |-> "", size |-> QZero, mpl |-> QZero,
     centroid |-> Zero3, Mass |-> Q(m), Centroid |-> VQ(<<1, 1, 1>>),
     fails |-> f]

\* the families of the claim of section 4.1: springs, dampers, bushings,
\* visco-elastic, gap, aero panels, coordinate systems, set definitions
ZeroMassFamilies ==
    {"CELAS1", "CELAS2", "CELAS3", "CELAS4",
     "CDAMP1", "CDAMP2", "CDAMP3", "CDAMP4", "CDAMP5",
     "CBUSH", "CBUSH1D", "CBUSH2D", "CVISC", "CGAP",
     "CAERO1", "CAERO2", "CAERO3", "CAERO4", "CAERO5",
     "CORD1R", "CORD2R", "CORD1C", "CORD2C", "CORD1S", "CORD2S", "CORD3G",
     "ASET", "ASET1", "BSET", "BSET1", "CSET", "CSET1",
     "QSET", "QSET1", "USET", "USET1"}

\* the order in which the map lists the types
TypeOrder ==
    <<"CQUAD4", "CTRIA3", "CSHEAR", "CROD", "CONROD", "CTUBE", "CBAR",
      "CTETRA", "CBEND", "CCONEAX", "CONM2", "PSHELL", "PSHEAR", "PROD", "PTUBE", "PBAR">>

\* the permutations of a set of ids, as lists
RECURSIVE Perms(_)
Perms(S) ==
    IF S = {} THEN {<<>>}
    ELSE UNION {{<<x>> \o p : p \in Perms(S \ {x})} : x \in S}

\* the ids the model holds for a card type: elements, point masses and
\* the properties the elements refer to
IdsOfType(elements_, masses_, t) ==
    {eid \in DOMAIN elements_ : elements_[eid].type = t}
    \cup {eid \in DOMAIN masses_ : masses_[eid].type = t}
    \cup {elements_[eid].pid : eid \in {x \in DOMAIN elements_ : elements_[x].ptype = t}}

\* the type-to-id maps of a model: its types in TypeOrder from the n-th
\* back, each with its ids in any order (orders) or in ascending order
RECURSIVE MapsOf(_, _, _, _)
MapsOf(elements_, masses_, n, orders) ==
    IF n = 0 THEN {<<>>}
    ELSE LET ids == IdsOfType(elements_, masses_, TypeOrder[n])
             rest == MapsOf(elements_, masses_, n - 1, orders)
         IN  IF ids = {} THEN rest
             ELSE {Append(m, [etype |-> TypeOrder[n], eids |-> p]) :
                      m \in rest,
                      p \in IF orders THEN Perms(ids) ELSE {SortedSeq(ids)}}

Restrict(f, S) == [x \in S |-> f[x]]

\* a CTETRA of density 1 whose node order makes the signed volume of line
\* 909 negative; its Mass() is Rho() * Volume() of the solid element class:
\* the same signed value (legacy = -1), or its magnitude (legacy = 1)
InvertedTetra(legacy) ==
    [Element("CTETRA", 30, "PSOLID", -1, 1, <<1, 1, 1>>) EXCEPT !.Mass = Q(legacy)]

\* two rods of one property, a quad, elements of two families without a
\* mass rule (with mass, without, and with a Mass() that raises), two
\* inverted tetrahedra, a quad whose Mass() and a rod whose Centroid() return
\* another value than the formulas of _get_mass_new, and one point mass
FamilyElements ==
    (1 :> Element("CROD", 10, "PROD", 1, 1, <<1, 2, 3>>))
    @@ (2 :> Element("CROD", 10, "PROD", 2, 1, <<-1, 1, 0>>))
    @@ (3 :> Element("CQUAD4", 20, "PSHELL", 1, 1, <<0, 1, 1>>))
    @@ (5 :> Card("CCONEAX", 1, "none"))
    @@ (6 :> Card("CCONEAX", 0, "none"))
    @@ (8 :> Card("CCONEAX", 0, "none"))
    @@ (9 :> Card("CCONEAX", 1, "Mass"))
    @@ (11 :> Card("CBEND", 1, "none"))
    @@ (12 :> InvertedTetra(-1))
    @@ (13 :> InvertedTetra(1))
    @@ (14 :> [Element("CQUAD4", 20, "PSHELL", 1, 1, <<0, 1, 1>>) EXCEPT !.Mass = Q(2)])
    @@ (15 :> [Element("CROD", 10, "PROD", 1, 1, <<1, 2, 3>>)
                  EXCEPT !.Centroid = VQ(<<1, 2, 2>>)])
FamilyMasses == (7 :> Card("CONM2", 1, "none"))

\* the zero-mass families whose cards are held in model.elements
ZeroMassElementTypes ==
    {"CELAS1", "CELAS2", "CELAS3", "CELAS4",
     "CDAMP1", "CDAMP2", "CDAMP3", "CDAMP4", "CDAMP5",
     "CBUSH", "CBUSH1D", "CBUSH2D", "CVISC", "CGAP"}

FamilyModels ==
    {{}, {1}, {1, 2}, {3}, {1, 2, 3}, {5}, {6, 8}, {2, 5, 6, 8}, {6, 9},
     {1, 11}, {12}, {13}, {1, 14}, {15}}

\* the arguments: no selection, a selection of elements, and a selection
\* of elements (one of them unknown) and point masses
Selections ==
    {[element_ids |-> <<>>, mass_ids |-> <<>>],
     [element_ids |-> <<{1}>>, mass_ids |-> <<>>],
     [element_ids |-> <<{1, 3, 9}>>, mass_ids |-> <<{7}>>]}

\* the two rods and the point mass with one card of a zero-mass family,
\* listed first or last in the map: an element (id 4) whose methods may
\* raise, or a card that is no element and has the id of a rod
InitZeroMass ==
    /\ masses = FamilyMasses
    /\ element_ids = <<>> /\ mass_ids = <<>>
    /\ \E t \in ZeroMassFamilies, f \in {"none", "Mass"} :
          /\ elements = IF t \in ZeroMassElementTypes
                        THEN Restrict(FamilyElements, {1, 2}) @@ (4 :> Card(t, 1, f))
                        ELSE Restrict(FamilyElements, {1, 2})
          /\ \E m \in MapsOf(Restrict(FamilyElements, {1, 2}), masses,
                             Len(TypeOrder), FALSE) :
                LET item == [etype |-> t,
                             eids |-> IF t \in ZeroMassElementTypes
                                      THEN <<4>> ELSE <<1>>]
                IN  type_to_id_map \in {<<item>> \o m, m \o <<item>>}

\* the models of FamilyModels, with their ids in any order in the map
InitSelections ==
    /\ masses \in {<<>>, FamilyMasses}
    /\ \E s \in Selections :
          element_ids = s.element_ids /\ mass_ids = s.mass_ids
    /\ \E S \in FamilyModels :
          /\ elements = Restrict(FamilyElements, S)
          /\ type_to_id_map \in MapsOf(elements, masses, Len(TypeOrder), TRUE)

InitFamilies ==
    /\ InitLocals /\ NoCards
    /\ entry = "model"
    /\ entities = <<>>
    /\ reference_point = NoRef /\ sym_axis = NoSym
    /\ scale = <<>> /\ wtmass = <<>>
    /\ xyz_ref2 = Zero3
    /\ (InitSelections \/ InitZeroMass)

NextFamilies ==
    \/ ModelStart \/ ModelFamily \/ ModelElement \/ ModelApplyNsm
    \/ NewApplyMassSymmetry

SpecFamilies == InitFamilies /\ [][NextFamilies]_vars

\* an NSM card of model.get_reduced_nsms(nsm_id): its card type, the type of
\* its targets, and its targets, 'ALL' or a list of ids
Nsm(type, nsm_type, all, ids, value) ==
    [type |-> type, nsm_type |-> nsm_type, all |-> all, ids |-> ids,
     value |-> Q(value)]

\* three rods of two properties, two quads of two properties and a tube
NsmElements ==
    (1 :> Element("CROD", 10, "PROD", 1, 1, <<1, 2, 3>>))
    @@ (2 :> Element("CROD", 10, "PROD", 2, 1, <<-1, 1, 0>>))
    @@ (3 :> Element("CQUAD4", 20, "PSHELL", 1, 1, <<0, 1, 1>>))
    @@ (4 :> Element("CROD", 11, "PROD", 1, 1, <<2, 0, 0>>))
    @@ (5 :> Element("CQUAD4", 21, "PSHELL", 2, 1, <<1, 0, 1>>))
    @@ (6 :> Element("CTUBE", 30, "PTUBE", 1, 1, <<0, 0, 1>>))

\* a chain of three rods, two quads, two models that mix both, and a rod
\* with a tube
NsmModels == {{1, 2, 4}, {3, 5}, {1, 2, 3}, {1, 3, 5}, {1, 6}}

\* cards of every type on properties and on elements: all ids matched,
\* some, none (99 is no id of any model), 'ALL'
NsmCards ==
    {Nsm("NSML1", "PSHELL", FALSE, <<20, 21>>, 2),
     Nsm("NSML1", "PSHELL", FALSE, <<20, 99>>, 2),
     Nsm("NSML1", "PSHELL", FALSE, <<99>>, 2),
     Nsm("NSML", "PSHELL", FALSE, <<20>>, 2),
     Nsm("NSML", "PSHELL", TRUE, <<>>, 2),
     Nsm("NSM1", "PSHELL", FALSE, <<20>>, 2),
     Nsm("NSM", "PSHELL", FALSE, <<21>>, 1),
     Nsm("NSM1", "PROD", TRUE, <<>>, 2),
     Nsm("NSM1", "PROD", FALSE, <<10>>, 2),
     Nsm("NSML1", "PROD", FALSE, <<10>>, 2),
     Nsm("NSML1", "PTUBE", TRUE, <<>>, 2),
     Nsm("NSM1", "ELEMENT", TRUE, <<>>, 2),
     Nsm("NSML1", "ELEMENT", TRUE, <<>>, 2),
     Nsm("NSM1", "ELEMENT", FALSE, <<3>>, 2),
     Nsm("NSM1", "ELEMENT", FALSE, <<1, 3>>, 2),
     Nsm("NSM1", "ELEMENT", FALSE, <<4>>, 2),
     Nsm("NSM1", "ELEMENT", FALSE, <<3, 99>>, 2),
     Nsm("NSML1", "ELEMENT", FALSE, <<3, 5>>, 2)}

\* _mass_properties_new with nsm_id = 1 and one or two cards of that id
InitNsm ==
    /\ InitLocals
    /\ entry = "model"
    /\ entities = <<>>
    /\ reference_point = NoRef /\ sym_axis = NoSym
    /\ scale = <<>> /\ wtmass = <<>>
    /\ xyz_ref2 = Zero3
    /\ aero = <<>> /\ aeros = <<>>
    /\ masses = <<>> /\ element_ids = <<>> /\ mass_ids = <<>>
    /\ nsm_id = <<1>>
    /\ nsms \in {<<a>> : a \in NsmCards} \cup {<<a, b>> : a, b \in NsmCards}
    /\ \E S \in NsmModels :
          /\ elements = Restrict(NsmElements, S)
          /\ type_to_id_map \in MapsOf(elements, masses, Len(TypeOrder), FALSE)

NextNsm ==
    \/ ModelStart \/ ModelFamily \/ ModelElement \/ ModelApplyNsm
    \/ ModelNsmCard \/ ModelNsmEnd \/ NewApplyMassSymmetry

SpecNsm == InitNsm /\ [][NextNsm]_vars

(***************************************************************************)
(* get_sub_eids on its own (entry "get_sub_eids"): all_eids is the sorted  *)
(* list of the keys of elements, eids the ids of the first item of the     *)
(* type-to-id map.                                                         *)
(***************************************************************************)
\* lines 541-546: the call, its IndexError or the list it returns
SubEidsCall ==
    /\ pc = "call" /\ entry = "get_sub_eids"
    /\ LET r == get_sub_eids(all_eids_sorted, type_to_id_map[1].eids)
       IN  IF r.raised
           THEN /\ pc' = "raised" /\ err' = "IndexError"
                /\ UNCHANGED eids2
           ELSE /\ eids2' = r.eids2
                /\ pc' = "done"
                /\ UNCHANGED err
    /\ UNCHANGED <<args, ref, idx, mass, cg, I, I_new, etypes_skipped, skip_log,
                   nsm_lists, eidsi>>

\* any sorted all_eids and any list eids over the ids 1..MaxId
InitSubEids ==
    /\ InitLocals /\ NoCards
    /\ entry = "get_sub_eids"
    /\ entities = <<>>
    /\ reference_point = NoRef /\ sym_axis = NoSym
    /\ scale = <<>> /\ wtmass = <<>>
    /\ xyz_ref2 = Zero3
    /\ masses = <<>> /\ element_ids = <<>> /\ mass_ids = <<>>
    /\ \E S \in SUBSET (1..MaxId) :
          elements = [eid \in S |-> Card("CCONEAX", 0, "none")]
    /\ \E eids \in SeqsUpTo(1..MaxId, MaxEids) :
          type_to_id_map = <<[etype |-> "CCONEAX", eids |-> eids]>>

SpecSubEids == InitSubEids /\ [][SubEidsCall]_vars

(***************************************************************************)
(* Properties.                                                             *)
(***************************************************************************)
\* the second moments of a point mass m at c about R, as section 4.2 of the
\* specification writes them
PointInertia(m, c, R) ==
    LET dx == QSub(c[1], R[1])
        dy == QSub(c[2], R[2])
        dz == QSub(c[3], R[3])
    IN  <<QMul(m, QAdd(QMul(dy, dy), QMul(dz, dz))),
          QMul(m, QAdd(QMul(dx, dx), QMul(dz, dz))),
          QMul(m, QAdd(QMul(dx, dx), QMul(dy, dy))),
          QMul(m, QMul(dx, dy)),
          QMul(m, QMul(dx, dz)),
          QMul(m, QMul(dy, dz))>>

RECURSIVE SumQ(_, _)
SumQ(f, n) == IF n = 0 THEN QZero ELSE QAdd(SumQ(f, n - 1), f[n])

\* the entities that are added: those whose Centroid() and Mass() return
Added(i) == entities[i].fails = "none"
AddedMass(i) == IF Added(i) THEN entities[i].m ELSE QZero

\* sums over the first n entities
SumMass(n) == SumQ([i \in 1..n |-> AddedMass(i)], n)
SumCg(n) ==
    [k \in 1..3 |-> SumQ([i \in 1..n |-> QMul(AddedMass(i), entities[i].c[k])], n)]
SumInertia(n, R) ==
    [k \in 1..6 |->
        SumQ([i \in 1..n |-> PointInertia(AddedMass(i), entities[i].c, R)[k]], n)]

Accumulating ==
    \/ entry = "new" /\ pc = "elements"
    \/ entry = "legacy" /\ pc = "pass2"

(* C1 (stated as claimed; the code violates it): a point mass m at c        *)
(* accumulated about A and passed through transform_inertia(m, c, A, B, .)  *)
(* has, in all six components, the inertia of the same point mass           *)
(* accumulated directly about B.                                            *)
C1_ParallelAxisRoundTrip ==
    (entry = "transform" /\ pc = "done") =>
        I_new = IncrementInertia(entities[1].c, xyz_ref2, entities[1].m,
                                 QZero, Zero3, Zero6).I

C3_NegativeProductOfInertia ==
    (entry = "new" /\ pc = "done" /\ Len(entities) = 1 /\ sym_axis = NoSym) =>
        LET e == entities[1]
            d == VSub(e.c, ref)
        IN  I[6] = QSub(QZero, QMul(e.m, QMul(d[2], d[3])))

\* the symmetry planes, the axis each zeroes in the cg and the factor each
\* applies to Ixy, Ixz, Iyz (section 4.4 of the specification)
Planes == {"xy", "xz", "yz"}
ZeroedAxis(p) == CASE p = "yz" -> 1 [] p = "xz" -> 2 [] p = "xy" -> 3
CrossFactor(p, t) ==
    CASE p = "xz" -> (IF t = 5 THEN 2 ELSE 0)
      [] p = "xy" -> (IF t = 4 THEN 2 ELSE 0)
      [] p = "yz" -> (IF t = 6 THEN 2 ELSE 0)

\* the scale factor: the argument when given, else WTMASS, else 1.0
ClaimedScale ==
    IF scale # <<>> THEN scale[1]
    ELSE IF wtmass # <<>> THEN wtmass[1]
    ELSE Q(1)

ActiveSet == SymAxisSet(sym_axis, aero, aeros)

\* the step in which _apply_mass_symmetry returns
SymmetryReturns == pc = "symmetry" /\ pc' = "done"

Times(n, q) == QMul(Q(n), QMul(ClaimedScale, q))

(* C4: with exactly one active plane p, the cg component orthogonal to p    *)
(* becomes 0 and the other two are unchanged, the two cross-terms that      *)
(* involve that axis become 0, the remaining cross-term is doubled, and     *)
(* mass, Ixx, Iyy, Izz are doubled (all of mass and inertia times the       *)
(* scale factor of C8, which is 1 without scale and WTMASS).                *)
C4_OnePlane ==
    [][\A p \in Planes :
         (SymmetryReturns /\ ActiveSet = {p}) =>
            /\ mass' = Times(2, mass)
            /\ \A t \in 1..3 : I'[t] = Times(2, I[t])
            /\ \A t \in 4..6 : I'[t] = Times(CrossFactor(p, t), I[t])
            /\ \A a \in 1..3 :
                  cg'[a] = IF a = ZeroedAxis(p) THEN QZero ELSE cg[a]
      ]_vars

C4_Witness ==
    /\ pc = "done" /\ ActiveSet = {"yz"}
    /\ Len(entities) = 2
    /\ scale = <<>> /\ wtmass = <<>>
    /\ mass = QAdd(Q(2), Q(2 * MaxMass))
    /\ QIsZero(cg[1]) /\ ~QIsZero(cg[2])
    /\ ~QIsZero(I[6]) /\ QIsZero(I[4])

RECURSIVE Pow2(_)
Pow2(k) == IF k = 0 THEN 1 ELSE 2 * Pow2(k - 1)

RECURSIVE CrossProduct(_, _)
CrossProduct(S, t) ==
    IF S = {} THEN 1
    ELSE LET p == CHOOSE q \in S : TRUE
         IN  CrossFactor(p, t) * CrossProduct(S \ {p}, t)

(* C5: with k = 1, 2 or 3 distinct active planes, mass and Ixx, Iyy, Izz    *)
(* are multiplied by 2^k, the cg component orthogonal to each active plane  *)
(* is 0, each cross-term is multiplied by the product of the planes'        *)
(* factors (so all three are 0 when k >= 2), and the result is the same     *)
(* for every list that names the same planes, in any order.                 *)
C5_PlanesCompose ==
    [][(SymmetryReturns /\ ActiveSet # {} /\ ActiveSet \subseteq Planes) =>
         LET k == Cardinality(ActiveSet)
         IN  /\ mass' = Times(Pow2(k), mass)
             /\ \A t \in 1..3 : I'[t] = Times(Pow2(k), I[t])
             /\ \A t \in 4..6 : I'[t] = Times(CrossProduct(ActiveSet, t), I[t])
             /\ k >= 2 => \A t \in 4..6 : QIsZero(I'[t])
             /\ \A p \in ActiveSet : QIsZero(cg'[ZeroedAxis(p)])
             /\ \A l \in SeqsUpTo(Planes, MaxSymLen) :
                  {l[i] : i \in DOMAIN l} = ActiveSet =>
                     LET r == ApplyMassSymmetry(ListSym(l), scale, aero, aeros,
                                                wtmass, mass, cg, I)
                     IN  ~r.raised /\ r.mass = mass' /\ r.cg = cg'
                         /\ r.inertia = I'
      ]_vars

C5_Witness ==
    /\ pc = "done" /\ sym_axis.kind = "list"
    /\ Len(sym_axis.v) = 3 /\ ActiveSet = Planes
    /\ Len(entities) = 1 /\ entities[1].m = Q(1)
    /\ mass = QMul(Q(8), ClaimedScale)
    /\ cg = Zero3

(* C6: a sym_axis that names a plane together with 'no' is rejected with    *)
(* an error and returns nothing; 'no' alone is accepted and changes mass    *)
(* and inertia by the scale factor only, and the cg not at all.             *)
C6_NoIsExclusive ==
    [][pc = "symmetry" =>
         /\ ("no" \in ActiveSet /\ ActiveSet \cap Planes # {}) =>
               pc' = "raised" /\ err' = "InvalidSymmetryAxis"
         /\ ActiveSet = {"no"} =>
               /\ pc' = "done"
               /\ mass' = QMul(ClaimedScale, mass)
               /\ cg' = cg
               /\ I' = VScale(ClaimedScale, I)
      ]_vars

C6_Witness ==
    /\ pc = "raised" /\ err = "InvalidSymmetryAxis"
    /\ "no" \in ActiveSet /\ "yz" \in ActiveSet
    /\ Len(entities) > 0

(* C7 (stated as claimed; the code violates it): a call of                  *)
(* _mass_properties_new with a malformed sym_axis fails before any          *)
(* accumulation step and before any element-level error.                    *)
C7_ValidationFirst ==
    (entry = "new" /\ SymAxisRejected(ActiveSet)) =>
        /\ idx <= 1
        /\ err # "ElementError"

(* C8: the scale factor is the scale argument when given, else WTMASS when  *)
(* present, else 1.0; it multiplies the mass and the six inertia components *)
(* that symmetry produced, and the cg is the one symmetry produced.         *)
C8_ScaleFactor ==
    [][SymmetryReturns =>
         LET sym == SymmetryBlocks(ActiveSet, mass, cg, I)
         IN  /\ mass' = QMul(ClaimedScale, sym.mass)
             /\ I' = VScale(ClaimedScale, sym.inertia)
             /\ cg' = sym.cg
      ]_vars

C8_Witness ==
    /\ pc = "done"
    /\ scale = <<Q(2)>> /\ wtmass = <<Q(3)>>
    /\ ActiveSet = {"xz"}
    /\ Len(entities) = 1 /\ entities[1].m = Q(1)
    /\ mass = Q(4)
    /\ ~QIsZero(cg[1]) /\ ~QIsZero(I[5])

(* C9 (stated as claimed; the code violates it): with a 3-vector            *)
(* reference_point R, _mass_properties_new computes every contribution to   *)
(* the inertia from the offsets centroid - R.                               *)
C9_FixedReferencePoint ==
    (entry = "new" /\ reference_point.kind = "xyz" /\ pc = "elements") =>
        I = SumInertia(idx - 1, reference_point.xyz)

\* the cg of all the entities, for a non-zero total mass
TotalMass == SumMass(Len(entities))
TotalCg == VDiv(SumCg(Len(entities)), TotalMass)

(* C10 (stated as claimed; _mass_properties_new violates it): with          *)
(* reference_point = 'cg', a returned result with mass M # 0 has the cg G   *)
(* of the entities as its cg and, as its inertia, the sum over the same     *)
(* entities of their second moments about G.                                *)
C10_TwoPassAboutCg ==
    (pc = "done" /\ reference_point.kind = "cg" /\ ~QIsZero(mass)) =>
        /\ mass = TotalMass
        /\ cg = TotalCg
        /\ I = SumInertia(Len(entities), TotalCg)

\* what holds of C10 in the code: _mass_properties is two-pass
LegacyTwoPassAboutCg ==
    (entry = "legacy" /\ pc = "done" /\ reference_point.kind = "cg"
     /\ ~QIsZero(mass)) =>
        /\ mass = TotalMass
        /\ cg = TotalCg /\ ref = TotalCg
        /\ I = SumInertia(Len(entities), TotalCg)

Contributes(e) == IF e.type \in no_mass THEN QZero ELSE e.Mass

RECURSIVE SumContributes(_, _)
SumContributes(f, S) ==
    IF S = {} THEN QZero
    ELSE LET x == CHOOSE y \in S : TRUE
         IN  QAdd(Contributes(f[x]), SumContributes(f, S \ {x}))

\* the entities that element_ids and mass_ids select
Selected == mass_properties_elements_init(elements, masses, element_ids, mass_ids)

(* C12 (stated as claimed; _mass_properties_new violates it): when the      *)
(* accumulation of _mass_properties_new has ended, the mass is that of the  *)
(* selected entities: all elements and point masses when neither            *)
(* element_ids nor mass_ids is given, else the elements whose id is in      *)
(* element_ids and the point masses whose id is in mass_ids.                *)
C12_SelectionFilters ==
    (entry = "model" /\ pc = "symmetry") =>
        mass = QAdd(SumContributes(elements, Selected.elements),
                    SumContributes(masses, Selected.masses))

(* C13 (stated as claimed; the code violates it): the ids that one family   *)
(* accumulates, from the first to the last, are in ascending order.         *)
C13_AscendingOrder ==
    (entry = "model" /\ pc = "family") => IsAscending(eids2)

(* C14: the item of a zero-mass family (springs, dampers, bushings,         *)
(* visco-elastic, gap, aero panels, coordinate systems, set definitions)    *)
(* is passed over in one step that raises nothing and leaves the running    *)
(* mass, the cg numerator, the inertia and the NSM contribution lists as    *)
(* they were, whatever the data of its cards.                               *)
C14_ZeroMassFamilies ==
    [][(/\ entry = "model" /\ pc = "families"
        /\ idx <= Len(type_to_id_map)
        /\ type_to_id_map[idx].etype \in ZeroMassFamilies) =>
          /\ pc' = "families" /\ idx' = idx + 1 /\ err' = ""
          /\ UNCHANGED <<mass, cg, I, nsm_lists>>
      ]_vars

C14_Witness ==
    /\ entry = "model" /\ pc = "done"
    /\ 4 \in DOMAIN elements /\ elements[4].fails = "Mass"
    /\ type_to_id_map[1].etype = "CVISC"
    /\ mass = Q(4)
    /\ DOMAIN length_eids_pids = {"PROD"} /\ Len(length_eids_pids["PROD"]) = 2

\* an element family of the model without a mass rule (lines 555-989) that
\* is not on the zero-mass list
Unsupported(etype) ==
    /\ etype \notin RuleTypes \cup {"CBEAM"} \cup no_mass
    /\ \E eid \in DOMAIN elements : elements[eid].type = etype

NoDuplicates(s) == \A i, j \in DOMAIN s : s[i] = s[j] => i = j

(* C15 (as claimed): once an element of a family without a mass rule that   *)
(* is not on the zero-mass list has been reached, the computation has       *)
(* failed; and no type is reported as skipped more than once.               *)
C15_UnsupportedFails ==
    /\ (entry = "model" /\ pc # "raised") =>
           \A i \in DOMAIN type_to_id_map :
              i < idx => ~Unsupported(type_to_id_map[i].etype)
    /\ NoDuplicates(skip_log)

\* the accumulator after the structural elements ids[1..n]
RECURSIVE Structural(_, _)
Structural(ids, n) ==
    IF n = 0 THEN [I |-> Zero6, mass |-> QZero, cg |-> Zero3]
    ELSE LET p == Structural(ids, n - 1)
             e == elements[ids[n]]
         IN  IncrementInertia(e.Centroid, ref, e.Mass, p.mass, p.cg, p.I)

IsAreaElement(e) == e.type \in TriTypes \cup QuadTypes \cup {"CSHEAR"}

\* the ids that a card may name: element ids, or the property ids of the
\* elements of the card's family
TargetIds(nsm) ==
    LET t == nsm_type_map(nsm.nsm_type)
    IN  IF t = "ELEMENT" THEN DOMAIN elements
        ELSE IF t = "CONROD"
        THEN {eid \in DOMAIN elements : elements[eid].type = "CONROD"}
        ELSE {elements[eid].pid :
                 eid \in {x \in DOMAIN elements :
                             nsm_type_map(elements[x].ptype) = t}}

\* the elements that a card targets
Targets(nsm) ==
    LET t == nsm_type_map(nsm.nsm_type)
        named(x) == nsm.all \/ \E i \in DOMAIN nsm.ids : nsm.ids[i] = x
    IN  IF t = "ELEMENT" THEN {eid \in DOMAIN elements : named(eid)}
        ELSE IF t = "CONROD"
        THEN {eid \in DOMAIN elements :
                 elements[eid].type = "CONROD" /\ named(eid)}
        ELSE {eid \in DOMAIN elements :
                 /\ nsm_type_map(elements[eid].ptype) = t
                 /\ named(elements[eid].pid)}

\* the ids of a card that name nothing in the model
Unmatched(nsm) ==
    IF nsm.all THEN {}
    ELSE {nsm.ids[i] : i \in DOMAIN nsm.ids} \ TargetIds(nsm)

MixedTargets(nsm) ==
    /\ \E eid \in Targets(nsm) : IsAreaElement(elements[eid])
    /\ \E eid \in Targets(nsm) : ~IsAreaElement(elements[eid])

(* C16 (stated as claimed; the code violates it): a call with one total-   *)
(* type card (NSML or NSML1) of value V whose targets are elements of one  *)
(* kind, at least one, does not fail, and the mass that the card adds to   *)
(* the structural mass is V.                                               *)
C16_NsmlConservation ==
    (/\ entry = "model" /\ Len(nsms) = 1 /\ nsm_id = <<1>>
     /\ nsms[1].type \in {"NSML", "NSML1"}
     /\ Targets(nsms[1]) # {} /\ ~MixedTargets(nsms[1])) =>
        /\ pc # "raised"
        /\ pc \in {"symmetry", "done"} =>
              mass = QAdd(SumContributes(elements, DOMAIN elements), nsms[1].value)

\* Scenario D of section 8: a chain of three rods and one NSM1 card on
\* ELEMENT with ids = ['ALL']
ScenarioD ==
    /\ entry = "model" /\ nsm_id = <<1>>
    /\ DOMAIN elements = {1, 2, 4}
    /\ \A eid \in DOMAIN elements : elements[eid].type = "CROD"
    /\ Len(nsms) = 1
    /\ nsms[1].type = "NSM1" /\ nsms[1].nsm_type = "ELEMENT" /\ nsms[1].all

(* C17 (stated as claimed; the code violates it): in Scenario D the call    *)
(* completes, and what it returns is the structural accumulator plus, for  *)
(* each rod, a point mass at the rod's centroid of the card's value times  *)
(* the rod's share of the total length.                                    *)
C17_ScenarioD ==
    ScenarioD =>
        /\ pc # "raised"
        /\ pc = "symmetry" =>
              LET ids == SortedSeq(DOMAIN elements)
                  len == [i \in DOMAIN ids |-> elements[ids[i]].size]
                  c == [i \in DOMAIN ids |-> elements[ids[i]].centroid]
                  st == AddShares(Structural(ids, Len(ids)), len,
                                  SumFirst(len, Len(ids)), c, nsms[1].value,
                                  ref, Len(ids))
              IN  mass = st.mass /\ I = st.I /\ cg = VDiv(st.cg, st.mass)

\* the card with the ids that name nothing removed
MatchedOnly(nsm) ==
    [nsm EXCEPT !.ids = Mask(nsm.ids, {i \in DOMAIN nsm.ids :
                                          nsm.ids[i] \in TargetIds(nsm)})]

\* what one card adds to the accumulator when it is the only card
Alone(nsm) ==
    apply_nsm_card(nsm, elements, type_to_id_map, area_eids_pids, areas,
                   nsm_centroids_area, length_eids_pids, lengths,
                   nsm_centroids_length, ref,
                   [I |-> I, mass |-> mass, cg |-> cg], <<>>)

(* C18 (stated as claimed; the code violates it): a card with ids that     *)
(* name no element or property does not abort the call: the loop goes on   *)
(* to the next card, having added nothing when no id is matched, and what  *)
(* the card without the unmatched ids adds otherwise.                      *)
C18_UnmatchedIdsIgnored ==
    [][(/\ entry = "model" /\ pc = "nsm" /\ idx <= Len(nsms)
        /\ Unmatched(nsms[idx]) # {}) =>
          /\ pc' = "nsm" /\ idx' = idx + 1 /\ err' = ""
          /\ Targets(nsms[idx]) = {} => UNCHANGED <<mass, cg, I>>
          /\ LET outs == {o \in Alone(MatchedOnly(nsms[idx])) : o.err = ""}
             IN  (Targets(nsms[idx]) # {} /\ outs # {}) =>
                    \E o \in outs :
                       mass' = o.st.mass /\ cg' = o.st.cg /\ I' = o.st.I
      ]_vars

(* C19 (stated as claimed; the code violates it): a card on ELEMENT or     *)
(* CONROD raises the mixed line/area error exactly when the elements its   *)
(* ids match are at least one area element and at least one line element.  *)
C19_MixedExactly ==
    [][(/\ entry = "model" /\ pc = "nsm" /\ idx <= Len(nsms)
        /\ nsm_type_map(nsms[idx].nsm_type) \in {"ELEMENT", "CONROD"}) =>
          ((pc' = "raised" /\ err' = MixedLineArea) <=> MixedTargets(nsms[idx]))
      ]_vars

(* C20 (stated as claimed; the code violates it): each card of the list    *)
(* adds to the accumulator what it adds when it is the only card, whatever *)
(* cards came before it, so that the totals are the sum of the cards' own  *)
(* contributions in any order.                                             *)
C20_CardsAdditive ==
    [][(entry = "model" /\ pc = "nsm" /\ idx <= Len(nsms)) =>
          \E o \in Alone(nsms[idx]) :
             IF o.err # "" THEN pc' = "raised" /\ err' = o.err
             ELSE /\ pc' = "nsm" /\ idx' = idx + 1
                  /\ mass' = o.st.mass /\ cg' = o.st.cg /\ I' = o.st.I
      ]_vars

\* the accumulator st after the contributions that a card of total or
\* per-unit type makes to each of its targets
Contributed(nsm, st) ==
    LET ids == SortedSeq(Targets(nsm))
        size == [i \in DOMAIN ids |-> elements[ids[i]].size]
        c == [i \in DOMAIN ids |-> elements[ids[i]].centroid]
        denom == IF nsm.type \in {"NSML1", "NSML"}
                 THEN SumFirst(size, Len(ids)) ELSE Q(1)
    IN  AddShares(st, size, denom, c, nsm.value, ref, Len(ids))

(* C21 (stated as claimed; the code violates it): a card whose target list *)
(* is ['ALL'], of any type and on any family of which the model has        *)
(* elements (of one kind), raises nothing and adds its contribution for    *)
(* every element of that family.                                           *)
C21_AllResolves ==
    [][(/\ entry = "model" /\ pc = "nsm" /\ idx <= Len(nsms)
        /\ nsms[idx].all
        /\ Targets(nsms[idx]) # {} /\ ~MixedTargets(nsms[idx])) =>
          LET st == Contributed(nsms[idx], [I |-> I, mass |-> mass, cg |-> cg])
          IN  /\ pc' = "nsm" /\ idx' = idx + 1 /\ err' = ""
              /\ mass' = st.mass /\ cg' = st.cg /\ I' = st.I
      ]_vars

\* the allowed values of sym_axis in the docstring of _mass_properties_new
DocumentedSymAxis == {"no", "x", "y", "z", "xy", "yz", "xz", "xyz"}

(* C22 (stated as claimed; the code violates it): a call whose sym_axis is *)
(* one of the eight documented strings does not end in the validation      *)
(* error of _apply_mass_symmetry.                                          *)
C22_DocumentedAccepted ==
    (/\ entry = "new" /\ sym_axis.kind = "str"
     /\ sym_axis.v[1] \in DocumentedSymAxis) =>
        ~(pc = "raised" /\ err = "InvalidSymmetryAxis")

\* the planes that the entries of sym_axis name, whatever their case
NamedPlanes == {Lower(x) : x \in ActiveSet} \cap Planes

(* C29 (stated as claimed; the code violates it): when _apply_mass_symmetry *)
(* returns, every plane that an entry of sym_axis names, in upper or lower *)
(* case, has been applied: the mass is doubled once per plane and the cg   *)
(* component orthogonal to each plane is 0.                                *)
C29_AcceptedPlaneApplied ==
    [][(SymmetryReturns /\ entry = "new") =>
          /\ mass' = Times(Pow2(Cardinality(NamedPlanes)), mass)
          /\ \A p \in NamedPlanes : QIsZero(cg'[ZeroedAxis(p)])
      ]_vars

QNonNegative(q) == q[1] >= 0

\* densities, masses per length or area and point masses are not negative
NonNegativeInputs ==
    /\ \A eid \in DOMAIN elements : QNonNegative(elements[eid].mpl)
    /\ \A eid \in DOMAIN elements :
          elements[eid].ptype = "" => QNonNegative(elements[eid].Mass)
    /\ \A eid \in DOMAIN masses : QNonNegative(masses[eid].Mass)
    /\ \A i \in DOMAIN nsms : QNonNegative(nsms[i].value)

(* C23 (stated as claimed; the code violates it): with non-negative        *)
(* inputs the running mass and Ixx, Iyy, Izz of _mass_properties_new are   *)
(* never negative, and the inertia always has its six components.          *)
C23_AccumulatorNonNegative ==
    (entry = "model" /\ NonNegativeInputs) =>
        /\ QNonNegative(mass)
        /\ Len(I) = 6
        /\ \A t \in 1..3 : QNonNegative(I[t])

\* the card with its value doubled
Doubled(nsm) == [nsm EXCEPT !.value = QMul(Q(2), nsm.value)]

\* the outcomes of one card applied to the accumulator st
Applied(nsm, st, eidsi_) ==
    apply_nsm_card(nsm, elements, type_to_id_map, area_eids_pids, areas,
                   nsm_centroids_area, length_eids_pids, lengths,
                   nsm_centroids_length, ref, st, eidsi_)

\* what takes the accumulator a to the accumulator b: the mass, the first
\* moments and the six inertia components added
Increment(a, b) ==
    [mass |-> QSub(b.mass, a.mass), cg |-> VSub(b.cg, a.cg), I |-> VSub(b.I, a.I)]

TwiceIncrement(d) ==
    [mass |-> QMul(Q(2), d.mass), cg |-> VScale(Q(2), d.cg), I |-> VScale(Q(2), d.I)]

\* the outcomes of a card as an error, or what it adds and the ids it
\* leaves to the next card
Effects(nsm, st, eidsi_) ==
    {[err |-> o.err, add |-> Increment(st, o.st), eidsi |-> o.eidsi] :
        o \in Applied(nsm, st, eidsi_)}

(* C24: a step of a per-unit card (NSM or NSM1) of value v, compared with   *)
(* the same step of the card with value 2v from the same state: the        *)
(* doubled card targets the same elements and fails exactly when the card  *)
(* fails; when the card completes, the doubled card adds twice the mass,   *)
(* twice the first moments and twice the inertia (so every share is        *)
(* doubled at the same centroid), and every other card then adds what it   *)
(* adds after the card itself.                                             *)
C24_PerUnitLinearity ==
    [][(/\ entry = "model" /\ pc = "nsm" /\ idx <= Len(nsms)
        /\ nsms[idx].type \in {"NSM", "NSM1"}) =>
          LET st == [I |-> I, mass |-> mass, cg |-> cg]
              st1 == [I |-> I', mass |-> mass', cg |-> cg']
              twice == Applied(Doubled(nsms[idx]), st, eidsi)
          IN  /\ Targets(Doubled(nsms[idx])) = Targets(nsms[idx])
              /\ {o.err : o \in twice} = {o.err : o \in Applied(nsms[idx], st, eidsi)}
              /\ pc' = "nsm" =>
                    \E o \in twice :
                       /\ o.err = "" /\ o.eidsi = eidsi'
                       /\ Increment(st, o.st) = TwiceIncrement(Increment(st, st1))
                       /\ \A j \in DOMAIN nsms \ {idx} :
                             Effects(nsms[j], o.st, o.eidsi)
                                = Effects(nsms[j], st1, eidsi')
      ]_vars

\* the two quads after the NSM1 card of value 2 on property 20: the
\* structural mass 3 and the share 2 * 1 of the quad of property 20 (area 1)
\* at its centroid (0, 1, 1)
C24_Witness ==
    /\ entry = "model" /\ pc = "nsm" /\ idx = 2
    /\ DOMAIN elements = {3, 5}
    /\ nsms[1] = Nsm("NSM1", "PSHELL", FALSE, <<20>>, 2)
    /\ mass = Q(5)
    /\ cg = VQ(<<2, 3, 5>>)

\* the structural families with a branch of their own in _get_mass_new
StructuralFamilies == RuleTypes \ MassTypes

\* the element's new mass or centroid is not what its own methods return
Disagrees(e) == QMul(e.mpl, e.size) # e.Mass \/ e.centroid # e.Centroid

(* C25 (stated as claimed; the code violates it): for an element of a      *)
(* structural family with a mass rule whose new mass differs from          *)
(* elem.Mass(), or whose new centroid differs from elem.Centroid(), the    *)
(* call raises an error and the element is not accumulated.                *)
C25_AgreementEnforced ==
    [][(/\ entry = "model" /\ pc = "family"
        /\ type_to_id_map[idx].etype \in StructuralFamilies
        /\ elements[Head(eids2)].ptype # "PLPLANE"
        /\ elements[Head(eids2)].fails = "none"
        /\ Disagrees(elements[Head(eids2)])) =>
          /\ pc' = "raised"
          /\ UNCHANGED <<mass, cg, I>>
      ]_vars

\* the ids of a list
Members(seq) == {seq[i] : i \in DOMAIN seq}

(* C26 (stated as claimed; the code violates it): get_sub_eids(all_eids,   *)
(* eids) on a sorted all_eids never fails, and returns the entries of eids *)
(* that are in all_eids, in their order in eids.                           *)
C26_SubEidsTotal ==
    entry = "get_sub_eids" =>
        /\ pc # "raised"
        /\ pc = "done" =>
              LET eids == type_to_id_map[1].eids
              IN  eids2 = Mask(eids, {i \in DOMAIN eids :
                                         eids[i] \in Members(all_eids_sorted)})

\* the family keys of the contribution lists
AreaKeys == {"PSHELL", "PSHEAR"}
LengthKeys == {"PROD", "CONROD", "PTUBE", "PBAR", "PBEAM"}

(* C27 (stated as claimed; the code violates it): at every point of the    *)
(* evaluation each family key has as many (element id, property id) pairs  *)
(* as areas or lengths and as NSM centroids, and the length assertions of  *)
(* _setup_apply_nsm never fail.                                            *)
C27_ListsAligned ==
    entry = "model" =>
        /\ \A k \in AreaKeys :
              /\ Len(Get(area_eids_pids, k)) = Len(Get(areas, k))
              /\ Len(Get(area_eids_pids, k)) = Len(Get(nsm_centroids_area, k))
        /\ \A k \in LengthKeys :
              /\ Len(Get(length_eids_pids, k)) = Len(Get(lengths, k))
              /\ Len(Get(length_eids_pids, k)) = Len(Get(nsm_centroids_length, k))
        /\ ~(pc = "raised" /\ err = "AssertionError")

\* what _setup_apply_nsm returns for the contribution lists as they are
SetupNow ==
    setup_apply_nsm(area_eids_pids, areas, nsm_centroids_area,
                    length_eids_pids, lengths, nsm_centroids_length)

(* C28 (stated as claimed; the code violates it): when the card loop of    *)
(* _apply_nsm runs, on a model with at least one contribution, what        *)
(* _setup_apply_nsm returned is stacked into flat arrays, one row per      *)
(* contribution, in ascending order of the element ids.                    *)
C28_SetupFlatSorted ==
    (entry = "model" /\ pc = "nsm") =>
        /\ SetupNow.rows # <<>>
        /\ SetupNow.stacked
        /\ IsAscending(Column(SetupNow.rows, "eid"))

\* the property families that _apply_nsm passes to _get_nsml1_prop
Nsml1Families == {"PSHELL", "PBAR", "PBEAM", "PROD", "PTUBE"}

(* C30 (stated as claimed; the code violates it): an NSML1 card on a       *)
(* property family never ends in the KeyError of an internal lookup, and   *)
(* when all its ids name properties of the model (or it is 'ALL') the loop *)
(* goes on to the next card, with a contribution or a skip.                *)
C30_Nsml1FamiliesResolved ==
    [][(/\ entry = "model" /\ pc = "nsm" /\ idx <= Len(nsms)
        /\ nsms[idx].type = "NSML1"
        /\ nsm_type_map(nsms[idx].nsm_type) \in Nsml1Families) =>
          /\ err' # "KeyError"
          /\ Unmatched(nsms[idx]) = {} =>
                (pc' = "nsm" /\ idx' = idx + 1 /\ err' = "")
      ]_vars

====
